---- MODULE Spec2Model ----
(***************************************************************************)
(* Model of the mGB MCP bridge (src/src/index.ts, src/src/types.ts):       *)
(* the argument validators, sendCommand, the WebSocket event handlers of   *)
(* connectToMgb, the CallTool handler and the ReadResource handler.        *)
(***************************************************************************)
EXTENDS Integers, Sequences, FiniteSets, TLC

\* ------------------------------------------------------------------------
\* Bounds of the model
\* ------------------------------------------------------------------------
\* longest updates list built from the representative items
MaxList == 2
\* longest row array, and the most rows and columns of a grid, inside a
\* batch item under test
MaxRow == 2
MaxGridRows == 2
MaxGridCols == 1
\* number of transport handles connectToMgb may create in one run
MaxHandles == 3
\* resolution of the random source: Math.random() returns k / RandRes
RandRes == 8192
\* number of tool calls whose writes are followed in order
MaxCalls == 3

\* ------------------------------------------------------------------------
\* JavaScript values.  Every value is a record of one shape, so that any two
\* values can be compared:
\*   t  the kind: "undefined", "null", "boolean", "number", "string",
\*      "array", "object"
\*   n  the number (for a boolean 1 or 0)
\*   s  a string's text up to its trailing digits, d those trailing digits
\*      ("cc12" is s = "cc", d = <<1,2>>; "note" is s = "note", d = <<>>)
\*   a  an array's elements
\*   o  an object's fields that are not undefined, as <<name, value>> pairs
\*      in FieldNames order
\* ------------------------------------------------------------------------
FieldNames ==
    << "command", "type", "row", "col", "state", "note", "divide",
       "states", "notes", "divides", "bpm", "preset", "port", "enabled",
       "track", "cc", "value", "updates", "param", "is_playing",
       "midi_clock_enabled", "status", "message" >>

JsValue(t, n, s, d, a, o) == [t |-> t, n |-> n, s |-> s, d |-> d, a |-> a, o |-> o]

Undefined == JsValue("undefined", 0, "", <<>>, <<>>, <<>>)
Null      == JsValue("null", 0, "", <<>>, <<>>, <<>>)
Bool(b)   == JsValue("boolean", IF b THEN 1 ELSE 0, "", <<>>, <<>>, <<>>)
Num(k)    == JsValue("number", k, "", <<>>, <<>>, <<>>)
StrD(w, ds) == JsValue("string", 0, w, ds, <<>>, <<>>)
Str(w)    == StrD(w, <<>>)
Arr(xs)   == JsValue("array", 0, "", <<>>, xs, <<>>)
Obj(r)    ==
    LET names == SelectSeq(FieldNames,
                           LAMBDA f : f \in DOMAIN r /\ r[f] # Undefined)
    IN  JsValue("object", 0, "", <<>>, <<>>,
                [i \in 1..Len(names) |-> [k |-> names[i], v |-> r[names[i]]]])

\* typeof v
TypeOf(v) == IF v.t \in {"null", "array", "object"} THEN "object" ELSE v.t

\* Array.isArray(v)
IsArray(v) == v.t = "array"

\* reading v.f throws a TypeError exactly when v is undefined or null
Nullish(v) == v.t \in {"undefined", "null"}

\* v.f for a v that is neither undefined nor null: a field of an object,
\* undefined for a primitive or an array (no field name is an array index)
Get(v, f) ==
    IF \E i \in DOMAIN v.o : v.o[i].k = f
    THEN v.o[CHOOSE i \in DOMAIN v.o : v.o[i].k = f].v
    ELSE Undefined

\* typeof v === "number" && lo <= v && v <= hi
NumIn(v, lo, hi) == TypeOf(v) = "number" /\ v.n >= lo /\ v.n <= hi

\* a string as a property key or list element: its text and trailing digits
Key(w, ds) == [s |-> w, d |-> ds]

\* list.includes(v) for a list of numbers / of strings (given as keys)
IncludesNum(S, v) == v.t = "number" /\ v.n \in S
IncludesStr(S, v) == v.t = "string" /\ Key(v.s, v.d) \in S

\* xs.every(p), given the verdicts vs[i] = p(xs[i]) ("true", "false" or
\* "throw"): every() stops at the first element whose verdict is not true,
\* and is true of the empty array
Every(vs) ==
    IF \A i \in DOMAIN vs : vs[i] = "true" THEN "true"
    ELSE vs[CHOOSE i \in DOMAIN vs :
               vs[i] # "true" /\ \A j \in DOMAIN vs : j < i => vs[j] = "true"]

Verdict(b) == IF b THEN "true" ELSE "false"

\* ------------------------------------------------------------------------
\* The validators of src/src/types.ts.  A validator's result is "true",
\* "false" or "throw" (the TypeError of reading a field of undefined/null).
\* ------------------------------------------------------------------------
BpmMin == 60
BpmMax == 300
MidiMin == 0
MidiMax == 127
Divides == {1, 2, 3}
validTracks ==
    {Key("PU", << 1 >>), Key("PU", << 2 >>), Key("WAV", <<>>), Key("NOISE", <<>>),
     Key("POLY", <<>>)}
validTypes ==
    {Key(w, <<>>) : w \in
       {"sequence", "note", "divide", "sequence_row", "note_row", "divide_row",
        "sequence_all", "note_all", "divide_all"}}

\* faulty variant of isSetBpmArgs: the bounds are exclusive
isSetBpmArgs_Exclusive(args) ==
    IF Nullish(args) THEN "throw"
    ELSE Verdict(NumIn(Get(args, "bpm"), BpmMin + 1, BpmMax - 1))

isSetBpmArgs(args) ==
    IF Nullish(args) THEN "throw"
    ELSE Verdict(NumIn(Get(args, "bpm"), BpmMin, BpmMax))

isToggleStepArgs(args) ==
    IF Nullish(args) THEN "throw"
    ELSE Verdict(TypeOf(Get(args, "row")) = "number"
                 /\ TypeOf(Get(args, "col")) = "number")

isSetNoteArgs(args) ==
    IF Nullish(args) THEN "throw"
    ELSE LET validDivide == Get(args, "divide") = Undefined
                            \/ IncludesNum(Divides, Get(args, "divide"))
         IN  Verdict(TypeOf(Get(args, "row")) = "number"
                     /\ TypeOf(Get(args, "col")) = "number"
                     /\ NumIn(Get(args, "note"), MidiMin, MidiMax)
                     /\ validDivide)

\* the element predicates of the row and grid forms
IsBoolElem(x) == TypeOf(x) = "boolean"
\* faulty variant of the note element check: no upper bound
IsNoteElem_NoMax(x) == TypeOf(x) = "number" /\ x.n >= MidiMin
IsNoteElem(x) == NumIn(x, MidiMin, MidiMax)
IsDivideElem(x) == IncludesNum(Divides, x)

\* the element callback of a row or grid check, named by what it accepts
ElemOk(kind, x) ==
    CASE kind = "boolean" -> IsBoolElem(x)
      [] kind = "note" -> IsNoteElem(x)
      [] kind = "divide" -> IsDivideElem(x)

\* Array.isArray(v) && v.every(elem)
RowOf(v, kind) == IsArray(v) /\ \A i \in DOMAIN v.a : ElemOk(kind, v.a[i])

\* Array.isArray(v) && v.every(row => Array.isArray(row) && row.every(elem))
GridOf(v, kind) == IsArray(v) /\ \A i \in DOMAIN v.a : RowOf(v.a[i], kind)

\* the callback isBatchUpdateArgs passes to updates.every
BatchItemVerdict(update) ==
    IF Nullish(update) THEN "throw"
    ELSE IF ~IncludesStr(validTypes, Get(update, "type")) THEN "false"
    ELSE LET ty  == Get(update, "type").s
             row == TypeOf(Get(update, "row")) = "number"
             col == TypeOf(Get(update, "col")) = "number"
         IN  Verdict(
               CASE ty = "sequence" ->
                      row /\ col /\ TypeOf(Get(update, "state")) = "boolean"
                 [] ty = "note" ->
                      row /\ col /\ NumIn(Get(update, "note"), MidiMin, MidiMax)
                 [] ty = "divide" ->
                      row /\ col /\ IncludesNum(Divides, Get(update, "divide"))
                 [] ty = "sequence_row" ->
                      row /\ RowOf(Get(update, "states"), "boolean")
                 [] ty = "note_row" ->
                      row /\ RowOf(Get(update, "notes"), "note")
                 [] ty = "divide_row" ->
                      row /\ RowOf(Get(update, "divides"), "divide")
                 [] ty = "sequence_all" ->
                      GridOf(Get(update, "states"), "boolean")
                 [] ty = "note_all" ->
                      GridOf(Get(update, "notes"), "note")
                 [] ty = "divide_all" ->
                      GridOf(Get(update, "divides"), "divide")
                 [] OTHER -> FALSE)

\* faulty variant of isBatchUpdateArgs: only the first item is checked
isBatchUpdateArgs_FirstOnly(args) ==
    IF Nullish(args) THEN "throw"
    ELSE IF ~IsArray(Get(args, "updates")) THEN "false"
    ELSE LET us == Get(args, "updates").a
         IN  IF us = <<>> THEN "true" ELSE BatchItemVerdict(us[1])

isBatchUpdateArgs(args) ==
    IF Nullish(args) THEN "throw"
    ELSE IF ~IsArray(Get(args, "updates")) THEN "false"
    ELSE LET us == Get(args, "updates").a
         IN  Every([i \in DOMAIN us |-> BatchItemVerdict(us[i])])

isSendPresetArgs(args) ==
    IF Nullish(args) THEN "throw"
    ELSE Verdict(TypeOf(Get(args, "preset")) = "string")

isChangeMidiOutputArgs(args) ==
    IF Nullish(args) THEN "throw"
    ELSE Verdict(TypeOf(Get(args, "port")) = "string")

isChangeMidiInputArgs(args) ==
    IF Nullish(args) THEN "throw"
    ELSE Verdict(TypeOf(Get(args, "port")) = "string")

isToggleMidiClockArgs(args) ==
    IF Nullish(args) THEN "throw"
    ELSE Verdict(TypeOf(Get(args, "enabled")) = "boolean")

\* faulty variant of isValidCC: the string form takes at most two digits
isValidCC_TwoDigits(cc) ==
    IF TypeOf(cc) = "string" THEN cc.s = "cc" /\ Len(cc.d) \in {1, 2}
    ELSE IF TypeOf(cc) = "number" THEN cc.n >= MidiMin /\ cc.n <= MidiMax
    ELSE FALSE

\* /^cc\d+$/.test(cc) for a string, 0 <= cc <= 127 for a number
isValidCC(cc) ==
    IF TypeOf(cc) = "string" THEN cc.s = "cc" /\ Len(cc.d) >= 1
    ELSE IF TypeOf(cc) = "number" THEN cc.n >= MidiMin /\ cc.n <= MidiMax
    ELSE FALSE

isUpdateCcArgs(args) ==
    IF Nullish(args) THEN "throw"
    ELSE Verdict(IncludesStr(validTracks, Get(args, "track"))
                 /\ isValidCC(Get(args, "cc"))
                 /\ NumIn(Get(args, "value"), MidiMin, MidiMax))

\* ------------------------------------------------------------------------
\* The cached DeviceState (src/src/types.ts 2-17, src/src/index.ts 156)
\* ------------------------------------------------------------------------
\* cc_values is the set of its entries (track key, cc key, value) together
\* with the set of track keys that exist in it (a track may map to {});
\* hasCc tells whether the snapshot carries a cc_values mapping at all.
\* A property key is a string, kept as text and trailing digits.
MgbState(playing, bpm, step, seq, notes, out, in, clock, hasCc, tracks, cc) ==
    [present |-> TRUE, is_playing |-> playing, bpm |-> bpm, current_step |-> step,
     sequence |-> seq, note_values |-> notes, midi_output |-> out,
     midi_input |-> in, midi_clock_enabled |-> clock,
     hasCc |-> hasCc, tracks |-> tracks, cc |-> cc]

\* currentState = null
NoState ==
    [present |-> FALSE, is_playing |-> FALSE, bpm |-> 0, current_step |-> 0,
     sequence |-> <<>>, note_values |-> <<>>, midi_output |-> "",
     midi_input |-> "", midi_clock_enabled |-> FALSE,
     hasCc |-> FALSE, tracks |-> {}, cc |-> {}]

\* ------------------------------------------------------------------------
\* State of the bridge
\* ------------------------------------------------------------------------
VARIABLES
    wsClient,      \* the current transport handle (0 is null)
    isConnected,   \* the connectivity flag
    currentState,  \* the cached DeviceState (present = FALSE is null)
    ws,            \* per handle: the state of the WebSocket object
    timers,        \* pending reconnect timers (setTimeout of the close handler)
    turn,          \* the handler turn that has just run: its input and result
    failedCmd,     \* history: the last watched command sendCommand refused
    vIn,           \* validator check: the argument value under test
    vOut,          \* validator check: the verdict of each validator on vIn
    firstSent,     \* history: the first command sent on the current handle
    calls,         \* history: the tool calls invoked, their writes in order,
                   \* and the calls that wait at their await
    proc           \* the process: running, closing (SIGINT handled, the
                   \* server's close awaited) or exited

vars == << wsClient, isConnected, currentState, ws, timers, turn, failedCmd,
           vIn, vOut, firstSent, calls, proc >>

Handles == 1..MaxHandles

\* a WebSocket object is live while it is connecting or open
Live == {"connecting", "open"}

\* ------------------------------------------------------------------------
\* sendCommand (src/src/index.ts 266-299)
\* ------------------------------------------------------------------------
NotConnectedMsg == "Not connected to mGB MIDI sequencer"
SendErrorMsg == "Error sending command: send failed"

Response(status, data, message) ==
    [status |-> status, data |-> data, message |-> message]

Cmd(r) == Obj(r)

GetState == Cmd([command |-> Str("get_state")])

\* the result of sendCommand(command), given the values of isConnected and
\* wsClient it reads: the response the promise resolves to (in the same
\* turn), the writes made on the transport, the number of wsClient.send
\* calls, the command it was given, and the command refused for lack of a
\* connection.  throws: whether wsClient.send throws on this call.
Sent(resp, wrote, attempts, command, refused) ==
    [resp |-> resp, wrote |-> wrote, attempts |-> attempts, command |-> command,
     refused |-> refused]

\* faulty variants of sendCommand: one that does not read the connectivity
\* flag, one that resolves success without writing, and one that reports
\* success when the write throws
sendCommand_NoFlag(connected, client, command, throws) ==
    IF client = 0
    THEN Sent(Response("error", Undefined, NotConnectedMsg), <<>>, 0, command, command)
    ELSE IF throws
    THEN Sent(Response("error", Undefined, SendErrorMsg), <<>>, 1, command, Undefined)
    ELSE Sent(Response("success", Obj([command |-> Get(command, "command")]), ""),
              << [h |-> client, cmd |-> command] >>, 1, command, Undefined)

sendCommand_NoWrite(connected, client, command, throws) ==
    IF ~connected \/ client = 0
    THEN Sent(Response("error", Undefined, NotConnectedMsg), <<>>, 0, command, command)
    ELSE IF throws
    THEN Sent(Response("error", Undefined, SendErrorMsg), <<>>, 1, command, Undefined)
    ELSE Sent(Response("success", Obj([command |-> Get(command, "command")]), ""),
              <<>>, 0, command, Undefined)

sendCommand_Swallow(connected, client, command, throws) ==
    IF ~connected \/ client = 0
    THEN Sent(Response("error", Undefined, NotConnectedMsg), <<>>, 0, command, command)
    ELSE Sent(Response("success", Obj([command |-> Get(command, "command")]), ""),
              IF throws THEN <<>> ELSE << [h |-> client, cmd |-> command] >>,
              1, command, Undefined)

\* faulty variant of sendCommand: the success response carries fields of
\* the cached state
sendCommand_EchoState(connected, client, command, throws) ==
    IF ~connected \/ client = 0
    THEN Sent(Response("error", Undefined, NotConnectedMsg), <<>>, 0, command, command)
    ELSE IF throws
    THEN Sent(Response("error", Undefined, SendErrorMsg), <<>>, 1, command, Undefined)
    ELSE Sent(Response("success",
                       Obj([command |-> Get(command, "command"),
                            is_playing |-> Bool(currentState.is_playing),
                            bpm |-> Num(currentState.bpm)]), ""),
              << [h |-> client, cmd |-> command] >>, 1, command, Undefined)

sendCommand(connected, client, command, throws) ==
    IF ~connected \/ client = 0
    THEN Sent(Response("error", Undefined, NotConnectedMsg), <<>>, 0, command, command)
    ELSE IF throws
    THEN Sent(Response("error", Undefined, SendErrorMsg), <<>>, 1, command, Undefined)
    ELSE Sent(Response("success", Obj([command |-> Get(command, "command")]), ""),
              << [h |-> client, cmd |-> command] >>, 1, command, Undefined)

\* ------------------------------------------------------------------------
\* The CallTool handler (src/src/index.ts 727-1106)
\* ------------------------------------------------------------------------
\* what a handler call ends in: a returned text content, or a thrown McpError
Return(msg, vals) ==
    [kind |-> "return", code |-> "", msg |-> msg, vals |-> vals, doc |-> NoState]
McpError(code, msg) ==
    [kind |-> "McpError", code |-> code, msg |-> msg, vals |-> <<>>, doc |-> NoState]

\* the exception a property read of undefined or null raises
TypeError ==
    [kind |-> "TypeError", code |-> "", msg |-> "TypeError", vals |-> <<>>,
     doc |-> NoState]

\* faulty variant of the catch clause: the error is rethrown as it is
Catch_Rethrow(error) == error

\* the catch clause of the handler: an McpError is rethrown, anything else
\* is wrapped as InternalError with the error's message
Catch(error) ==
    IF error.kind = "McpError" THEN error
    ELSE McpError("InternalError", "Error calling mGB API: " \o error.msg)

\* what the caller gets when a validator (or args.track) raises a TypeError
WrapTypeError == Catch(TypeError)

\* v in a condition (v ? a : b)
Truthy(v) ==
    CASE v.t \in {"undefined", "null"} -> FALSE
      [] v.t \in {"boolean", "number"} -> v.n # 0
      [] v.t = "string" -> v.s # "" \/ v.d # <<>>
      [] OTHER -> TRUE

\* response.data?.f
Opt(data, f) == IF Nullish(data) THEN Undefined ELSE Get(data, f)

\* `Error: ${response.message || "Unknown error"}`
ErrorText(resp) ==
    Return("Error: " \o (IF resp.message = "" THEN "Unknown error" ELSE resp.message),
           <<>>)

\* a turn that does not call sendCommand
NoSend == Sent(Response("none", Undefined, ""), <<>>, 0, Undefined, Undefined)

\* how a handler ends: its outcome and what its sendCommand call did
CallEnd(out, sent) ==
    [out |-> out, resp |-> sent.resp, wrote |-> sent.wrote,
     attempts |-> sent.attempts, command |-> sent.command, refused |-> sent.refused]

\* a case of the switch that validates, awaits sendCommand and reports:
\* verdict is the validator's result on the arguments, okOut the text built
\* from the response when its status is not "error"
Awaited(verdict, invalidMsg, command, throws, okOut) ==
    IF verdict = "throw" THEN CallEnd(WrapTypeError, NoSend)
    ELSE IF verdict = "false"
    THEN CallEnd(Catch(McpError("InvalidParams", invalidMsg)), NoSend)
    ELSE LET r == sendCommand(isConnected, wsClient, command, throws)
         IN  CallEnd(IF r.resp.status = "error" THEN ErrorText(r.resp) ELSE okOut, r)

\* faulty variant of FireAndForget: the send is awaited and its error reported
FireAndForget_Awaiting(command, throws, okOut) ==
    Awaited("true", "", command, throws, okOut)

\* a case that sends without awaiting and reports success whatever the send did
FireAndForget(command, throws, okOut) ==
    CallEnd(okOut, sendCommand(isConnected, wsClient, command, throws))

ToolNames ==
    {"toggle_play", "set_bpm", "toggle_step", "set_note", "send_preset",
     "batch_update", "get_midi_ports", "change_midi_output", "change_midi_input",
     "toggle_midi_clock", "update_cc", "update_synth_param", "no_such_tool"}

\* the command each case of the switch builds from the arguments
CommandOf(name, args) ==
    CASE name = "toggle_play" -> Cmd([command |-> Str("toggle_play")])
      [] name = "set_bpm" ->
           Cmd([command |-> Str("set_bpm"), bpm |-> Get(args, "bpm")])
      [] name = "toggle_step" ->
           Cmd([command |-> Str("toggle_step"), row |-> Get(args, "row"),
                col |-> Get(args, "col")])
      [] name = "set_note" ->
           Cmd([command |-> Str("set_note"), row |-> Get(args, "row"),
                col |-> Get(args, "col"), note |-> Get(args, "note"),
                divide |-> Get(args, "divide")])
      [] name = "send_preset" ->
           Cmd([command |-> Str("send_preset"), preset |-> Get(args, "preset")])
      [] name = "batch_update" ->
           Cmd([command |-> Str("batch_update"), updates |-> Get(args, "updates")])
      [] name = "get_midi_ports" -> Cmd([command |-> Str("get_available_ports")])
      [] name = "change_midi_output" ->
           Cmd([command |-> Str("change_midi_output"), port |-> Get(args, "port")])
      [] name = "change_midi_input" ->
           Cmd([command |-> Str("change_midi_input"), port |-> Get(args, "port")])
      [] name = "toggle_midi_clock" ->
           Cmd([command |-> Str("toggle_midi_clock"), enabled |-> Get(args, "enabled")])
      [] name = "update_cc" ->
           Cmd([command |-> Str("update_cc"), track |-> Get(args, "track"),
                cc |-> Get(args, "cc"), value |-> Get(args, "value")])
      [] name = "update_synth_param" ->
           Cmd([command |-> Str("update_cc"), track |-> Get(args, "track"),
                cc |-> Get(args, "param"), value |-> Get(args, "value")])
      [] OTHER -> Undefined

\* the validator each case applies ("true" for a case that applies none)
ValidatorOf(name, args) ==
    CASE name = "set_bpm" -> isSetBpmArgs(args)
      [] name = "toggle_step" -> isToggleStepArgs(args)
      [] name = "set_note" -> isSetNoteArgs(args)
      [] name = "send_preset" -> isSendPresetArgs(args)
      [] name = "batch_update" -> isBatchUpdateArgs(args)
      [] name = "change_midi_output" -> isChangeMidiOutputArgs(args)
      [] name = "change_midi_input" -> isChangeMidiInputArgs(args)
      [] name = "toggle_midi_clock" -> isToggleMidiClockArgs(args)
      [] name = "update_cc" -> isUpdateCcArgs(args)
      [] OTHER -> "true"

\* the handler: its outcome and what it did on the transport
CallTool(name, args, throws) ==
    LET command == CommandOf(name, args)
        verdict == ValidatorOf(name, args)
        data    == sendCommand(isConnected, wsClient, command, throws).resp.data
    IN
    CASE name = "toggle_play" ->
           Awaited("true", "", command, throws,
                   Return(IF Truthy(Opt(data, "is_playing"))
                          THEN "Playback started" ELSE "Playback stopped", <<>>))
      [] name = "set_bpm" ->
           Awaited(verdict, "Invalid BPM arguments", command, throws,
                   Return("BPM set to", << Opt(data, "bpm") >>))
      [] name = "toggle_step" ->
           Awaited(verdict, "Invalid toggle step arguments", command, throws,
                   Return(IF Truthy(Opt(data, "value"))
                          THEN "Step set to ON" ELSE "Step set to OFF",
                          << Opt(data, "row"), Opt(data, "col") >>))
      [] name = "set_note" ->
           Awaited(verdict, "Invalid set note arguments", command, throws,
                   Return(IF Truthy(Opt(data, "divide"))
                          THEN "Note set with division" ELSE "Note set",
                          << Opt(data, "row"), Opt(data, "col"), Opt(data, "note") >>))
      [] name = "send_preset" ->
           Awaited(verdict, "Invalid preset arguments", command, throws,
                   Return("Preset applied successfully", << Opt(data, "preset") >>))
      [] name = "batch_update" ->
           Awaited(verdict, "Invalid batch update arguments", command, throws,
                   Return("Batch update completed successfully", <<>>))
      [] name = "get_midi_ports" ->
           Awaited("true", "", command, throws, Return("JSON", << data >>))
      [] name = "change_midi_output" ->
           Awaited(verdict, "Invalid MIDI output arguments", command, throws,
                   Return("MIDI output changed to", << Opt(data, "port") >>))
      [] name = "change_midi_input" ->
           Awaited(verdict, "Invalid MIDI input arguments", command, throws,
                   Return("MIDI input changed to", << Opt(data, "port") >>))
      [] name = "toggle_midi_clock" ->
           Awaited(verdict, "Invalid MIDI clock arguments", command, throws,
                   Return(IF Truthy(Opt(data, "midi_clock_enabled"))
                          THEN "MIDI clock enabled" ELSE "MIDI clock disabled", <<>>))
      [] name = "update_cc" ->
           IF verdict = "throw" THEN CallEnd(WrapTypeError, NoSend)
           ELSE IF verdict = "false"
           THEN CallEnd(Catch(McpError("InvalidParams",
                                       "Invalid control change arguments")),
                        NoSend)
           ELSE FireAndForget(command, throws,
                              Return("CC update sent for",
                                     << Get(args, "track"), Get(args, "cc"),
                                        Get(args, "value") >>))
      [] name = "update_synth_param" ->
           \* args.track of absent arguments is a TypeError, before any send
           IF Nullish(args) THEN CallEnd(WrapTypeError, NoSend)
           ELSE FireAndForget(command, throws,
                              Return("Synth parameter update sent for",
                                     << Get(args, "track"), Get(args, "param"),
                                        Get(args, "value") >>))
      [] OTHER -> CallEnd(Catch(McpError("MethodNotFound", "Unknown tool")), NoSend)

\* ------------------------------------------------------------------------
\* The ReadResource handler (src/src/index.ts 338-427)
\* ------------------------------------------------------------------------
StateUri == "mgb://state"

\* the fixed default document, with its _error text in msg
DefaultDoc ==
    MgbState(FALSE, 120, 0, <<>>, <<>>, "", "", FALSE, TRUE, {}, {})

ReturnDoc(doc, error) ==
    [kind |-> "return", code |-> "", msg |-> error, vals |-> <<>>, doc |-> doc]

\* faulty variants of the ReadResource handler: one that fails when the
\* get_state it sends is refused or throws, and one that sends get_state
\* even when a state is cached
ReadResourceCall_Fail(uri, throws) ==
    IF uri # StateUri
    THEN CallEnd([kind |-> "McpError", code |-> "InvalidRequest",
                  msg |-> "Unknown resource", vals |-> <<>>, doc |-> NoState],
                 NoSend)
    ELSE IF ~currentState.present
    THEN LET r == sendCommand(isConnected, wsClient, GetState, throws)
         IN  CallEnd(IF r.resp.status = "error"
                     THEN [kind |-> "McpError", code |-> "InternalError",
                           msg |-> r.resp.message, vals |-> <<>>, doc |-> NoState]
                     ELSE ReturnDoc(DefaultDoc, "mGB state is not available"),
                     r)
    ELSE CallEnd(ReturnDoc(currentState, ""), NoSend)

ReadResourceCall_Refresh(uri, throws) ==
    IF uri # StateUri
    THEN CallEnd([kind |-> "McpError", code |-> "InvalidRequest",
                  msg |-> "Unknown resource", vals |-> <<>>, doc |-> NoState],
                 NoSend)
    ELSE LET r == sendCommand(isConnected, wsClient, GetState, throws)
         IN  IF ~currentState.present
             THEN CallEnd(ReturnDoc(DefaultDoc,
                                    IF r.resp.status = "error" THEN r.resp.message
                                    ELSE "mGB state is not available"), r)
             ELSE CallEnd(ReturnDoc(currentState, ""), r)

ReadResourceCall(uri, throws) ==
    IF uri # StateUri
    THEN CallEnd([kind |-> "McpError", code |-> "InvalidRequest",
                  msg |-> "Unknown resource", vals |-> <<>>, doc |-> NoState],
                 NoSend)
    ELSE IF ~currentState.present
    THEN LET r == sendCommand(isConnected, wsClient, GetState, throws)
         IN  CallEnd(IF r.resp.status = "error"
                     THEN ReturnDoc(DefaultDoc,
                                    IF r.resp.message = ""
                                    THEN "Failed to connect to mGB MIDI sequencer"
                                    ELSE r.resp.message)
                     ELSE ReturnDoc(DefaultDoc, "mGB state is not available"),
                     r)
    ELSE CallEnd(ReturnDoc(currentState, ""), NoSend)

\* ------------------------------------------------------------------------
\* Inbound messages and the message handler (src/src/index.ts 212-244)
\* ------------------------------------------------------------------------
\* type: "state", "response", "cc_update", any other word for a decoded object
\* of another type ("primitive" for a payload that decodes to a number, a
\* string or a boolean, whose type property is undefined), "null" for a
\* payload that decodes to null, "garbage" for a payload JSON.parse rejects
Message(type, snap, status, track, cc, value) ==
    [type |-> type, snap |-> snap, status |-> status,
     track |-> track, cc |-> cc, value |-> value]

StateMsg(snap) == Message("state", snap, "", Undefined, Undefined, Undefined)
ResponseMsg(status) == Message("response", NoState, status, Undefined, Undefined, Undefined)
CcUpdateMsg(track, cc, value) == Message("cc_update", NoState, "", track, cc, value)
OtherMsg(type) == Message(type, NoState, "", Undefined, Undefined, Undefined)

\* the decimal digits of a natural number
RECURSIVE Digits(_)
Digits(n) == IF n < 10 THEN << n >> ELSE Digits(n \div 10) \o << n % 10 >>

\* String(v), as text and trailing digits: the key v names as a property
PropKey(v) ==
    CASE v.t = "string" -> [s |-> v.s, d |-> v.d]
      [] v.t = "number" ->
           IF v.n >= 0 THEN [s |-> "", d |-> Digits(v.n)]
                       ELSE [s |-> "-", d |-> Digits(-v.n)]
      [] v.t = "boolean" -> [s |-> IF v.n = 1 THEN "true" ELSE "false", d |-> <<>>]
      [] v.t = "array" -> [s |-> "[array]", d |-> <<>>]
      [] v.t = "object" -> [s |-> "[object Object]", d |-> <<>>]
      [] OTHER -> [s |-> v.t, d |-> <<>>]

\* faulty variant of the key: a numeric cc is used as it is
CcKey_Raw(cc) == PropKey(cc)

\* typeof cc === 'number' ? `cc${cc}` : cc, used as a property key
CcKey(cc) ==
    IF TypeOf(cc) = "number"
    THEN [s |-> "cc" \o PropKey(cc).s, d |-> PropKey(cc).d]
    ELSE PropKey(cc)

\* faulty variant of the cc_update branch: with no usable cache it makes one
\* out of the update
ApplyCcUpdate_Create(state, m) ==
    LET tk == PropKey(m.track)
        ck == CcKey(m.cc)
    IN  IF state.present /\ state.hasCc
        THEN [state EXCEPT
                !.tracks = @ \cup {tk},
                !.cc = {e \in @ : ~(e.track = tk /\ e.key = ck)}
                       \cup {[track |-> tk, key |-> ck, value |-> m.value]}]
        ELSE [state EXCEPT
                !.present = TRUE, !.hasCc = TRUE, !.tracks = {tk},
                !.cc = {[track |-> tk, key |-> ck, value |-> m.value]}]

\* the cc_update branch: currentState after the update
ApplyCcUpdate(state, m) ==
    IF state.present /\ state.hasCc
    THEN LET tk == PropKey(m.track)
             ck == CcKey(m.cc)
         IN  [state EXCEPT
                !.tracks = @ \cup {tk},
                !.cc = {e \in @ : ~(e.track = tk /\ e.key = ck)}
                       \cup {[track |-> tk, key |-> ck, value |-> m.value]}]
    ELSE state

\* currentState after the message handler has run on m
HandleMessage(state, m) ==
    CASE m.type \in {"garbage", "null"} -> state
      [] m.type = "state" -> m.snap
      [] m.type = "response" -> state
      [] m.type = "cc_update" -> ApplyCcUpdate(state, m)
      [] OTHER -> state

\* ------------------------------------------------------------------------
\* The inputs the environment can give
\* ------------------------------------------------------------------------
\* representative batch items: two valid ones, one out of range, and null
ItemSeqCell == Obj([type |-> Str("sequence"), row |-> Num(0), col |-> Num(3),
                    state |-> Bool(TRUE)])
ItemNoteRow == Obj([type |-> Str("note_row"), row |-> Num(1),
                    notes |-> Arr(<< Num(60), Num(127) >>)])
ItemBadNote == Obj([type |-> Str("note"), row |-> Num(0), col |-> Num(0),
                    note |-> Num(128)])
RepItems == {ItemSeqCell, ItemNoteRow, ItemBadNote, Null}

\* all lists of at most n elements of S
RECURSIVE ListsOf(_, _)
ListsOf(S, k) ==
    IF k = 0 THEN {<<>>} ELSE {Append(l, x) : l \in ListsOf(S, k - 1), x \in S}

ListsUpTo(S, n) == UNION {ListsOf(S, k) : k \in 0..n}

BatchLists == ListsUpTo(RepItems, MaxList)

\* the arguments a tool call may carry: absent, empty, out of range or of the
\* wrong type, and valid
CallArgs(name) ==
    {Undefined, Obj(<<>>)} \cup
    CASE name = "set_bpm" ->
           {Obj([bpm |-> Num(k)]) : k \in {59, 60, 300, 301}}
           \cup {Obj([bpm |-> StrD("", << 1, 2, 0 >>)])}
      [] name = "toggle_step" ->
           {Obj([row |-> Num(0), col |-> Num(3)]),
            Obj([row |-> Num(0), col |-> Str("x")])}
      [] name = "set_note" ->
           {Obj([row |-> Num(0), col |-> Num(1), note |-> Num(k), divide |-> dv]) :
              k \in {60, 128}, dv \in {Undefined, Num(3), Num(4)}}
      [] name = "send_preset" ->
           {Obj([preset |-> Str("techno")]), Obj([preset |-> Num(1)])}
      [] name = "batch_update" ->
           {Obj([updates |-> Arr(l)]) : l \in BatchLists}
           \cup {Obj([updates |-> Str("all")])}
      [] name \in {"change_midi_output", "change_midi_input"} ->
           {Obj([port |-> Str("MicroFreak")]), Obj([port |-> Num(1)])}
      [] name = "toggle_midi_clock" ->
           {Obj([enabled |-> Bool(TRUE)]), Obj([enabled |-> Num(1)])}
      [] name = "update_cc" ->
           {Obj([track |-> StrD("PU", << 1 >>), cc |-> StrD("cc", << 1 >>), value |-> Num(80)]),
            Obj([track |-> StrD("PU", << 1 >>), cc |-> Num(5), value |-> Num(128)]),
            Obj([track |-> Str("DRUM"), cc |-> Num(5), value |-> Num(10)]),
            Obj([track |-> Str("WAV"), cc |-> Num(127), value |-> Num(0)])}
      [] name = "update_synth_param" ->
           {Obj([track |-> StrD("PU", << 1 >>), param |-> Str("pulse_width"), value |-> Num(80)])}
      [] OTHER -> {}

Uris == {StateUri, "mgb://other"}

Snap1 ==
    MgbState(TRUE, 140, 2, << <<TRUE, FALSE>> >>, << <<60, 62>> >>, "out", "in", TRUE,
             TRUE, {Key("PU", << 1 >>)},
             {[track |-> Key("PU", << 1 >>), key |-> Key("cc", << 1 >>),
               value |-> Num(64)]})

\* a snapshot that carries no cc_values, and one whose cc_values is {}
SnapNoCc ==
    MgbState(FALSE, 120, 0, << <<FALSE, FALSE>> >>, << <<60, 60>> >>, "out", "in", FALSE,
             FALSE, {}, {})

SnapEmptyCc ==
    MgbState(FALSE, 120, 0, << <<FALSE, FALSE>> >>, << <<60, 60>> >>, "out", "in", FALSE,
             TRUE, {}, {})

Snapshots == {Snap1, SnapNoCc, SnapEmptyCc}

\* cc_update pushes: a track of the device and one it does not have; cc as a
\* number, as "cc5" and as "5"; two values
CcTracks == {StrD("PU", << 1 >>), Str("DRUM")}
CcCodes == {Num(5), StrD("cc", << 5 >>), StrD("", << 5 >>)}
CcValues == {Num(10), Num(20)}

CacheMessages ==
    {StateMsg(snap) : snap \in Snapshots}
    \cup {CcUpdateMsg(tr, cc, v) : tr \in CcTracks, cc \in CcCodes, v \in CcValues}
    \cup {ResponseMsg("success"), OtherMsg("garbage")}

Messages ==
    {StateMsg(Snap1), ResponseMsg("success"), ResponseMsg("error"),
     CcUpdateMsg(StrD("PU", << 1 >>), StrD("cc", << 1 >>), Num(80)),
     OtherMsg("ping"), OtherMsg("primitive"), OtherMsg("null"), OtherMsg("garbage")}

\* ------------------------------------------------------------------------
\* The handlers as actions.  Handlers run as discrete turns that do not
\* overlap: a handler starts when no turn is in progress, runs to its end and
\* leaves the record of what it did in turn; TurnEnd ends the turn.
\* ------------------------------------------------------------------------
Ran(op, h, name, args, conn, threw, end) ==
    [op |-> op, h |-> h, name |-> name, args |-> args, conn |-> conn,
     threw |-> threw, out |-> end.out, resp |-> end.resp, wrote |-> end.wrote,
     attempts |-> end.attempts, command |-> end.command]

NoOut == [kind |-> "none", code |-> "", msg |-> "", vals |-> <<>>, doc |-> NoState]
NoEnd == CallEnd(NoOut, NoSend)

Idle == Ran("idle", 0, "", Undefined, FALSE, FALSE, NoEnd)

\* the commands whose refusal the history variable failedCmd records
Watched ==
    {GetState, Cmd([command |-> Str("toggle_play")]),
     Cmd([command |-> Str("update_cc"), track |-> StrD("PU", << 1 >>),
          cc |-> StrD("cc", << 1 >>), value |-> Num(80)])}

Refused(end) == IF end.refused \in Watched THEN end.refused ELSE failedCmd

\* no tool call invoked yet
NoCalls == [invoked |-> 0, log |-> <<>>, waiting |-> {}]

\* firstSent after a turn: the first command wsClient.send was called with on
\* the current handle is remembered as "get_state" or "other"; a new handle
\* starts with "none"
FirstSent(end) ==
    IF end.attempts > 0 /\ firstSent = "none"
    THEN IF end.command = GetState THEN "get_state" ELSE "other"
    ELSE firstSent

\* faulty variant of a tool call: update_cc writes the value it sent into
\* the cache
ToolCall_WriteThrough(name, args, throws) ==
    LET end == CallTool(name, args, throws)
    IN  /\ turn = Idle
        /\ turn' = Ran("call", 0, name, args, isConnected /\ wsClient # 0, throws, end)
        /\ failedCmd' = Refused(end)
        /\ firstSent' = FirstSent(end)
        /\ currentState' =
              IF name = "update_cc" /\ end.wrote # <<>>
              THEN ApplyCcUpdate(currentState,
                                 CcUpdateMsg(Get(args, "track"), Get(args, "cc"),
                                             Get(args, "value")))
              ELSE currentState
        /\ UNCHANGED << proc, calls, wsClient, isConnected, ws, timers, vIn, vOut >>

\* a tool call (CallTool request)
ToolCall(name, args, throws) ==
    LET end == CallTool(name, args, throws)
    IN  /\ turn = Idle
        /\ turn' = Ran("call", 0, name, args, isConnected /\ wsClient # 0, throws, end)
        /\ failedCmd' = Refused(end)
        /\ firstSent' = FirstSent(end)
        /\ UNCHANGED << proc, calls, wsClient, isConnected, currentState, ws, timers,
                        vIn, vOut >>

\* faulty variant of a resource read: the default document it returns is
\* kept as the cached state
ResourceRead_Adopt(uri, throws) ==
    LET end == ReadResourceCall(uri, throws)
    IN  /\ turn = Idle
        /\ turn' = Ran("read", 0, uri, Undefined, isConnected /\ wsClient # 0, throws, end)
        /\ failedCmd' = Refused(end)
        /\ firstSent' = FirstSent(end)
        /\ currentState' = IF uri = StateUri /\ ~currentState.present
                           THEN end.out.doc ELSE currentState
        /\ UNCHANGED << proc, calls, wsClient, isConnected, ws, timers, vIn, vOut >>

\* a resource read (ReadResource request)
ResourceRead(uri, throws) ==
    LET end == ReadResourceCall(uri, throws)
    IN  /\ turn = Idle
        /\ turn' = Ran("read", 0, uri, Undefined, isConnected /\ wsClient # 0, throws, end)
        /\ failedCmd' = Refused(end)
        /\ firstSent' = FirstSent(end)
        /\ UNCHANGED << proc, calls, wsClient, isConnected, currentState, ws, timers,
                        vIn, vOut >>

\* connectToMgb (src/src/index.ts 180-192): terminate the previous handle,
\* if any, then create a new one.  terminate() does nothing on a closed
\* handle; on any other it forces the close, whose close event follows.
Terminated(st) == IF st \in {"closed", "none"} THEN st ELSE "terminated"

NewHandle == 1 + Cardinality({h \in Handles : ws[h] # "none"})

connectToMgb ==
    /\ NewHandle \in Handles
    /\ wsClient' = NewHandle
    /\ ws' = [h \in Handles |->
                IF h = NewHandle THEN "connecting"
                ELSE IF h = wsClient THEN Terminated(ws[h])
                ELSE ws[h]]

\* faulty variant of the open handler: after get_state it sends again the
\* command that was refused while the bridge was not connected
OnOpen_Replay(h, throws) ==
    /\ turn = Idle
    /\ ws[h] = "connecting"
    /\ ws' = [ws EXCEPT ![h] = "open"]
    /\ isConnected' = TRUE
    /\ LET r == sendCommand(TRUE, wsClient, GetState, throws)
           q == IF failedCmd = Undefined THEN <<>>
                ELSE << [h |-> wsClient, cmd |-> failedCmd] >>
       IN  /\ turn' = Ran("open", h, "", Undefined, TRUE, throws,
                          CallEnd(NoOut, [r EXCEPT !.wrote = @ \o q]))
           /\ failedCmd' = Undefined
           /\ firstSent' = FirstSent(r)
    /\ UNCHANGED << proc, calls, wsClient, currentState, timers, vIn, vOut >>

\* faulty variant of the open handler: it sets the flag and sends nothing
OnOpen_NoHydrate(h, throws) ==
    /\ turn = Idle
    /\ ws[h] = "connecting"
    /\ ws' = [ws EXCEPT ![h] = "open"]
    /\ isConnected' = TRUE
    /\ turn' = Ran("open", h, "", Undefined, TRUE, throws, NoEnd)
    /\ UNCHANGED << proc, calls, wsClient, currentState, timers, failedCmd, vIn, vOut, firstSent >>

\* the open handler (194-210): sets the flag, then sends get_state
OnOpen(h, throws) ==
    /\ turn = Idle
    /\ ws[h] = "connecting"
    /\ ws' = [ws EXCEPT ![h] = "open"]
    /\ isConnected' = TRUE
    /\ LET r == sendCommand(TRUE, wsClient, GetState, throws)
       IN  /\ turn' = Ran("open", h, "", Undefined, TRUE, throws, CallEnd(NoOut, r))
           /\ failedCmd' = Refused(r)
           /\ firstSent' = FirstSent(r)
    /\ UNCHANGED << proc, calls, wsClient, currentState, timers, vIn, vOut >>

\* the text of the message field of an error response of the device
DeviceErrorText == "Unknown command"

\* what the turn record keeps of a message: the fields of a cc_update and
\* of a response
MsgArgs(m) ==
    CASE m.type = "cc_update" ->
           Obj([type |-> Str("cc_update"), track |-> m.track, cc |-> m.cc,
                value |-> m.value])
      [] m.type = "response" ->
           Obj([type |-> Str("response"), status |-> Str(m.status),
                message |-> IF m.status = "error" THEN Str(DeviceErrorText)
                            ELSE Undefined])
      [] OTHER -> Undefined

\* a handler that ends by writing a line to the log
Logged(msg) ==
    [kind |-> "logged", code |-> "", msg |-> msg, vals |-> <<>>, doc |-> NoState]

\* faulty variants of the end of the message handler: one with no try/catch
\* around the decoding, and one that hands the device's error to a caller
MessageEnd_NoCatch(m) ==
    CASE m.type \in {"garbage", "null"} ->
           [kind |-> "uncaught", code |-> "", msg |-> "SyntaxError or TypeError",
            vals |-> <<>>, doc |-> NoState]
      [] m.type = "state" -> Logged("[MGB MCP] State updated")
      [] m.type = "response" ->
           IF m.status = "error"
           THEN Logged("[MGB API Error] " \o DeviceErrorText)
           ELSE Logged("[MGB API] Response received")
      [] m.type = "cc_update" -> Logged("[MGB MCP] CC update received")
      [] OTHER -> NoOut

MessageEnd_Surface(m) ==
    CASE m.type \in {"garbage", "null"} ->
           Logged("[MGB MCP] Error parsing WebSocket message")
      [] m.type = "state" -> Logged("[MGB MCP] State updated")
      [] m.type = "response" ->
           IF m.status = "error"
           THEN [kind |-> "return", code |-> "", msg |-> "Error: " \o DeviceErrorText,
                 vals |-> <<>>, doc |-> NoState]
           ELSE Logged("[MGB API] Response received")
      [] m.type = "cc_update" -> Logged("[MGB MCP] CC update received")
      [] OTHER -> NoOut

\* how the message handler ends (212-244): JSON.parse throws on a payload that
\* is no JSON and message.type throws on null, both inside the try, whose
\* catch logs; each branch logs; a message of another type does nothing
MessageEnd(m) ==
    CASE m.type \in {"garbage", "null"} ->
           Logged("[MGB MCP] Error parsing WebSocket message")
      [] m.type = "state" -> Logged("[MGB MCP] State updated")
      [] m.type = "response" ->
           IF m.status = "error"
           THEN Logged("[MGB API Error] " \o DeviceErrorText)
           ELSE Logged("[MGB API] Response received")
      [] m.type = "cc_update" -> Logged("[MGB MCP] CC update received")
      [] OTHER -> NoOut

\* the message handler (212-244)
OnMessage(h, m) ==
    /\ turn = Idle
    /\ ws[h] = "open"
    /\ currentState' = HandleMessage(currentState, m)
    /\ turn' = Ran("message", h, m.type, MsgArgs(m), isConnected /\ wsClient # 0,
                   FALSE, CallEnd(MessageEnd(m), NoSend))
    /\ UNCHANGED << proc, calls, wsClient, isConnected, ws, timers, failedCmd, vIn, vOut, firstSent >>

\* faulty variant of the error handler: it schedules a reconnect as well
OnError_Reconnect(h) ==
    /\ turn = Idle
    /\ ws[h] \in Live
    /\ ws' = [ws EXCEPT ![h] = "errored"]
    /\ isConnected' = FALSE
    /\ timers' = timers + 1
    /\ turn' = Ran("error", h, "", Undefined, isConnected /\ wsClient # 0, FALSE, NoEnd)
    /\ UNCHANGED << proc, calls, wsClient, currentState, failedCmd, vIn, vOut, firstSent >>

\* faulty variant of the error handler: it logs and leaves isConnected set
OnError_KeepFlag(h) ==
    /\ turn = Idle
    /\ ws[h] \in Live
    /\ ws' = [ws EXCEPT ![h] = "errored"]
    /\ turn' = Ran("error", h, "", Undefined, isConnected /\ wsClient # 0, FALSE, NoEnd)
    /\ UNCHANGED << proc, calls, wsClient, isConnected, currentState, timers, failedCmd, vIn,
                    vOut, firstSent >>

\* the error handler (246-249); the WebSocket emits close after an error
OnError(h) ==
    /\ turn = Idle
    /\ ws[h] \in Live
    /\ ws' = [ws EXCEPT ![h] = "errored"]
    /\ isConnected' = FALSE
    /\ turn' = Ran("error", h, "", Undefined, isConnected /\ wsClient # 0, FALSE, NoEnd)
    /\ UNCHANGED << proc, calls, wsClient, currentState, timers, failedCmd, vIn, vOut, firstSent >>

\* Math.random() returns a value k / RandRes of [0, 1), k in 0 .. RandRes - 1
RandomDraws == 0..(RandRes - 1)

ReconnectBase == 5000
ReconnectSpread == 3000

\* faulty variant of the delay: rounded to the nearest instead of down
reconnectDelay_Round(k) ==
    ReconnectBase + ((2 * k * ReconnectSpread + RandRes) \div (2 * RandRes))

\* 5000 + Math.floor(Math.random() * 3000)   (255)
reconnectDelay(k) == ReconnectBase + ((k * ReconnectSpread) \div RandRes)

\* faulty variant of the close handler: it schedules the reconnect twice
OnClose_TwoTimers(h) ==
    /\ turn = Idle
    /\ ws[h] \in {"open", "errored", "terminated"}
    /\ ws' = [ws EXCEPT ![h] = "closed"]
    /\ isConnected' = FALSE
    /\ timers' = timers + 2
    /\ turn' = Ran("close", h, "", Undefined, isConnected /\ wsClient # 0, FALSE, NoEnd)
    /\ UNCHANGED << proc, calls, wsClient, currentState, failedCmd, vIn, vOut,
                    firstSent >>

\* faulty variant of the close handler: no reconnect is scheduled
OnClose_NoTimer(h) ==
    /\ turn = Idle
    /\ ws[h] \in {"open", "errored", "terminated"}
    /\ ws' = [ws EXCEPT ![h] = "closed"]
    /\ isConnected' = FALSE
    /\ turn' = Ran("close", h, "", Undefined, isConnected /\ wsClient # 0, FALSE, NoEnd)
    /\ UNCHANGED << proc, calls, wsClient, currentState, timers, failedCmd, vIn, vOut, firstSent >>

\* the close handler (251-262): clears the flag and schedules connectToMgb
OnClose(h) ==
    /\ turn = Idle
    /\ ws[h] \in {"open", "errored", "terminated"}
    /\ ws' = [ws EXCEPT ![h] = "closed"]
    /\ isConnected' = FALSE
    /\ timers' = timers + 1
    /\ turn' = Ran("close", h, "", Undefined, isConnected /\ wsClient # 0, FALSE, NoEnd)
    /\ UNCHANGED << proc, calls, wsClient, currentState, failedCmd, vIn, vOut, firstSent >>

\* faulty variant of the timer callback: the bridge counts as connected as
\* soon as the new handle is created
ReconnectTimer_Connected ==
    /\ turn = Idle
    /\ timers > 0
    /\ timers' = timers - 1
    /\ connectToMgb
    /\ isConnected' = TRUE
    /\ turn' = Ran("connect", NewHandle, "", Undefined, isConnected /\ wsClient # 0,
                   FALSE, NoEnd)
    /\ firstSent' = "none"
    /\ UNCHANGED << proc, calls, currentState, failedCmd, vIn, vOut >>

\* a reconnect timer fires (259-261)
ReconnectTimer ==
    /\ turn = Idle
    /\ timers > 0
    /\ timers' = timers - 1
    /\ connectToMgb
    /\ turn' = Ran("connect", NewHandle, "", Undefined, isConnected /\ wsClient # 0,
                   FALSE, NoEnd)
    /\ firstSent' = "none"
    /\ UNCHANGED << proc, calls, isConnected, currentState, failedCmd, vIn, vOut >>

\* the turn is over
TurnEnd ==
    /\ turn # Idle
    /\ turn' = Idle
    /\ UNCHANGED << proc, calls, wsClient, isConnected, currentState, ws, timers, failedCmd,
                    vIn, vOut, firstSent >>

\* ------------------------------------------------------------------------
\* The validators on their own: the argument values put to them
\* ------------------------------------------------------------------------
\* field values: absent, null, booleans, numbers around every range's ends,
\* and the string "1"
FieldValues ==
    {Undefined, Null, Bool(TRUE), Bool(FALSE), StrD("", << 1 >>)}
    \cup {Num(k) : k \in {-1, 0, 1, 2, 3, 4, 127, 128}}

IndexValues == {Undefined, Num(0), StrD("", << 0 >>)}

RowElems ==
    {Bool(TRUE), StrD("", << 1 >>)} \cup {Num(k) : k \in {-1, 0, 3, 4, 127, 128}}

GridElems == {Bool(FALSE), Num(2)}

NotArrays == {Undefined, Null, Num(1), Str("all")}

RowArrays == {Arr(l) : l \in ListsUpTo(RowElems \cup {Null}, 1) \cup ListsUpTo(RowElems, MaxRow)}

\* grids of booleans and in-range numbers with at most one row that is no
\* array, and one-cell grids of a number only a note grid accepts, of numbers
\* out of range and of a string
GridArrays ==
    {Arr(g) : g \in ListsUpTo({Null}
                              \cup {Arr(l) : l \in ListsUpTo(GridElems, MaxGridCols)},
                              MaxGridRows)}
    \cup {Arr(<< Arr(<< x >>) >>) :
             x \in {Num(-1), Num(0), Num(4), Num(127), Num(128), StrD("", << 1 >>), Null}}
    \cup {Arr(<< Num(2) >>)}

TypeValues == {Str(k.s) : k \in validTypes} \cup {Undefined, Str("pattern"), Num(1)}

CellItems ==
    {Obj([type |-> ty, row |-> r, col |-> c, state |-> v]) :
       ty \in {Str("sequence")}, r \in IndexValues, c \in IndexValues, v \in FieldValues}
    \cup
    {Obj([type |-> ty, row |-> r, col |-> c, note |-> v]) :
       ty \in {Str("note")}, r \in IndexValues, c \in IndexValues, v \in FieldValues}
    \cup
    {Obj([type |-> ty, row |-> r, col |-> c, divide |-> v]) :
       ty \in {Str("divide")}, r \in IndexValues, c \in IndexValues, v \in FieldValues}

\* row items: every row array with a valid row index, and every row index
\* with a valid array
RowItems ==
    {Obj([type |-> Str("sequence_row"), row |-> Num(0), states |-> v]) :
       v \in RowArrays \cup NotArrays}
    \cup
    {Obj([type |-> Str("note_row"), row |-> Num(0), notes |-> v]) :
       v \in RowArrays \cup NotArrays}
    \cup
    {Obj([type |-> Str("divide_row"), row |-> Num(0), divides |-> v]) :
       v \in RowArrays \cup NotArrays}
    \cup
    {Obj([type |-> ty, row |-> r, states |-> Arr(<< Bool(TRUE) >>),
          notes |-> Arr(<< Num(60) >>), divides |-> Arr(<< Num(1) >>)]) :
       ty \in {Str("sequence_row"), Str("note_row"), Str("divide_row")},
       r \in IndexValues}

GridItems ==
    {Obj([type |-> Str("sequence_all"), states |-> v]) : v \in GridArrays \cup NotArrays}
    \cup
    {Obj([type |-> Str("note_all"), notes |-> v]) : v \in GridArrays \cup NotArrays}
    \cup
    {Obj([type |-> Str("divide_all"), divides |-> v]) : v \in GridArrays \cup NotArrays}

\* items whose fields are all of a valid cell but whose type varies, and
\* values that are no objects
OddItems ==
    {Obj([type |-> ty, row |-> Num(0), col |-> Num(0), state |-> Bool(TRUE),
          note |-> Num(60), divide |-> Num(1)]) : ty \in TypeValues}
    \cup {Undefined, Null, Num(1), Str("sequence"), Bool(TRUE), Arr(<<>>)}

TestItems == CellItems \cup RowItems \cup GridItems \cup OddItems

\* updates lists: every test item alone, and the lists of representative items
TestLists == {<< i >> : i \in TestItems} \cup BatchLists

VInputs ==
    {Undefined, Null, Obj(<<>>)}
    \cup {Obj([updates |-> Arr(l)]) : l \in TestLists}
    \cup {Obj([updates |-> v]) : v \in NotArrays}
    \cup {Obj([bpm |-> v]) : v \in FieldValues \cup {Num(k) : k \in {59, 60, 300, 301}}}
    \cup {Obj([row |-> r, col |-> c, note |-> v, divide |-> dv]) :
            r \in {Num(0), Null}, c \in {Num(1), Str("x")},
            v \in FieldValues, dv \in FieldValues}
    \cup {Obj([preset |-> v, port |-> v, enabled |-> v]) :
            v \in {Str("techno"), Str(""), Num(1), Null, Bool(FALSE)}}
    \cup {Obj([track |-> tr, cc |-> cc, value |-> v]) :
            tr \in {StrD("PU", << 1 >>), Str("NOISE"), Str("PU"), Str("DRUM"),
                    Num(1), Undefined},
            cc \in {StrD("cc", << 1 >>), StrD("cc", << 2, 0, 0 >>), Str("cc"),
                    Str("pulse_width"), StrD("", << 5 >>), StrD("xcc", << 1 >>),
                    Num(-1), Num(0), Num(127), Num(128), Undefined, Null},
            v \in {Num(-1), Num(0), Num(127), Num(128), StrD("", << 1 >>), Undefined}}

\* the verdict of every validator on args
Verdicts(args) ==
    [isSetBpmArgs |-> isSetBpmArgs(args),
     isToggleStepArgs |-> isToggleStepArgs(args),
     isSetNoteArgs |-> isSetNoteArgs(args),
     isBatchUpdateArgs |-> isBatchUpdateArgs(args),
     isSendPresetArgs |-> isSendPresetArgs(args),
     isChangeMidiOutputArgs |-> isChangeMidiOutputArgs(args),
     isChangeMidiInputArgs |-> isChangeMidiInputArgs(args),
     isToggleMidiClockArgs |-> isToggleMidiClockArgs(args),
     isUpdateCcArgs |-> isUpdateCcArgs(args)]

NotRun == [v \in DOMAIN Verdicts(Undefined) |-> "none"]

Validate ==
    /\ vOut = NotRun
    /\ vOut' = Verdicts(vIn)
    /\ UNCHANGED << proc, calls, wsClient, isConnected, currentState, ws, timers, turn,
                    failedCmd, vIn, firstSent >>

\* the state after the constructor (163-177) has run connectToMgb once
Init ==
    /\ wsClient = 1
    /\ isConnected = FALSE
    /\ currentState = NoState
    /\ ws = [h \in Handles |-> IF h = 1 THEN "connecting" ELSE "none"]
    /\ timers = 0
    /\ turn = Idle
    /\ failedCmd = Undefined
    /\ firstSent = "none"
    /\ vIn = Undefined
    /\ vOut = NotRun
    /\ calls = NoCalls
    /\ proc = "running"

Next ==
    \/ \E name \in ToolNames : \E args \in CallArgs(name) : \E throws \in BOOLEAN :
         ToolCall(name, args, throws)
    \/ \E uri \in Uris : \E throws \in BOOLEAN : ResourceRead(uri, throws)
    \/ \E h \in Handles : \E throws \in BOOLEAN : OnOpen(h, throws)
    \/ \E h \in Handles : \E m \in Messages : OnMessage(h, m)
    \/ \E h \in Handles : OnError(h)
    \/ \E h \in Handles : OnClose(h)
    \/ ReconnectTimer
    \/ TurnEnd

Spec == Init /\ [][Next]_vars

InitV ==
    /\ wsClient = 1
    /\ isConnected = FALSE
    /\ currentState = NoState
    /\ ws = [h \in Handles |-> IF h = 1 THEN "connecting" ELSE "none"]
    /\ timers = 0
    /\ turn = Idle
    /\ failedCmd = Undefined
    /\ firstSent = "none"
    /\ vIn \in VInputs
    /\ vOut = NotRun
    /\ calls = NoCalls
    /\ proc = "running"

NextV == Validate

SpecV == InitV /\ [][NextV]_vars

\* The bridge under the scheduling of the event loop: a handler that has
\* started runs to its end, and a pending timer fires however many other
\* events arrive.  Handles are numbered up to MaxHandles, so a handle closes
\* only while another one can still be created.  The requests that compete
\* with the connection events for the event loop are one tool call and one
\* resource read.
NextL ==
    \/ \E throws \in BOOLEAN : ToolCall("toggle_play", Undefined, throws)
    \/ \E throws \in BOOLEAN : ResourceRead(StateUri, throws)
    \/ \E h \in Handles : \E throws \in BOOLEAN : OnOpen(h, throws)
    \/ \E h \in Handles : \E m \in Messages : OnMessage(h, m)
    \/ \E h \in Handles : OnError(h)
    \/ \E h \in Handles : NewHandle \in Handles /\ OnClose(h)
    \/ ReconnectTimer
    \/ TurnEnd

SpecL == Init /\ [][NextL]_vars /\ WF_vars(TurnEnd) /\ SF_vars(ReconnectTimer)

\* The reconnect delay on its own: vIn is the numerator k of the value
\* k / RandRes that Math.random() returned, vOut the delay computed from it.
InitD ==
    /\ wsClient = 1
    /\ isConnected = FALSE
    /\ currentState = NoState
    /\ ws = [h \in Handles |-> IF h = 1 THEN "connecting" ELSE "none"]
    /\ timers = 0
    /\ turn = Idle
    /\ failedCmd = Undefined
    /\ firstSent = "none"
    /\ vIn \in {Num(k) : k \in RandomDraws}
    /\ vOut = NotRun
    /\ calls = NoCalls
    /\ proc = "running"

Delay ==
    /\ vOut = NotRun
    /\ vOut' = Num(reconnectDelay(vIn.n))
    /\ UNCHANGED << proc, calls, wsClient, isConnected, currentState, ws, timers, turn,
                    failedCmd, vIn, firstSent >>

NextD == Delay

\* The message handler on its own, on a handle that is open: snapshots with
\* and without cc_values, and cc_update pushes
InitC ==
    /\ wsClient = 1
    /\ isConnected = TRUE
    /\ currentState = NoState
    /\ ws = [h \in Handles |-> IF h = 1 THEN "open" ELSE "none"]
    /\ timers = 0
    /\ turn = Idle
    /\ failedCmd = Undefined
    /\ firstSent = "get_state"
    /\ vIn = Undefined
    /\ vOut = NotRun
    /\ calls = NoCalls
    /\ proc = "running"

NextC ==
    \/ \E m \in CacheMessages : OnMessage(wsClient, m)
    \/ TurnEnd

SpecC == InitC /\ [][NextC]_vars

SpecD == InitD /\ [][NextD]_vars

\* ------------------------------------------------------------------------
\* Shutdown (src/src/index.ts 307-313).  The SIGINT handler closes the
\* current WebSocket, awaits the server's close and then exits; while it
\* awaits, the event loop goes on running handlers and timers.
\* ------------------------------------------------------------------------
\* the shutdown signal is handled: wsClient.close() starts the close of the
\* current handle, whose close event follows; nothing on a closed handle
Sigint ==
    /\ turn = Idle
    /\ proc = "running"
    /\ proc' = "closing"
    /\ ws' = [ws EXCEPT ![wsClient] = Terminated(@)]
    /\ turn' = Ran("sigint", wsClient, "", Undefined, isConnected /\ wsClient # 0,
                   FALSE, NoEnd)
    /\ UNCHANGED << wsClient, isConnected, currentState, timers, failedCmd, vIn, vOut,
                    firstSent, calls >>

\* the server's close has completed: process.exit(0)
Exit ==
    /\ turn = Idle
    /\ proc = "closing"
    /\ proc' = "exited"
    /\ UNCHANGED << wsClient, isConnected, currentState, ws, timers, turn, failedCmd,
                    vIn, vOut, firstSent, calls >>

\* the bridge until the process has exited
NextS ==
    \/ Sigint
    \/ Exit
    \/ proc # "exited" /\ \E name \in {"toggle_play", "update_cc"} :
          \E args \in CallArgs(name) : ToolCall(name, args, FALSE)
    \/ proc # "exited" /\ \E h \in Handles : OnOpen(h, FALSE)
    \/ proc # "exited" /\ \E h \in Handles : OnError(h)
    \/ proc # "exited" /\ \E h \in Handles : OnClose(h)
    \/ proc # "exited" /\ ReconnectTimer
    \/ proc # "exited" /\ TurnEnd

SpecS == Init /\ [][NextS]_vars

\* ------------------------------------------------------------------------
\* Tool calls in flight together, while the connection opens and closes (a
\* handle closes only while another one can still be created).  An async handler runs without a break up
\* to its first await: a case of the switch validates and calls sendCommand,
\* whose promise executor (267-298) calls wsClient.send before it returns,
\* and only then awaits the promise; update_cc and update_synth_param do
\* not await and return in the same run.  The code after the await builds
\* the text from the response and sends nothing.
\* ------------------------------------------------------------------------
\* faulty variant of Segments: a tool that awaits yields before its write
Segments_SendAfterAwait(name, end) ==
    LET yields == name \notin {"update_cc", "update_synth_param"}
                  /\ end.resp.status # "none"
    IN  [now |-> IF yields THEN <<>> ELSE end.wrote,
         later |-> IF yields THEN end.wrote ELSE <<>>,
         yields |-> yields]

\* the writes a call makes before its handler yields or returns, the writes
\* it makes after it resumes, and whether it yields at an await
Segments(name, end) ==
    [now |-> end.wrote,
     later |-> <<>>,
     yields |-> name \notin {"update_cc", "update_synth_param"}
                /\ end.resp.status # "none"]

\* the writes of call id as entries of the log
Stamped(id, wrote) ==
    [i \in DOMAIN wrote |->
       [id |-> id, h |-> wrote[i].h, command |-> Get(wrote[i].cmd, "command")]]

\* the calls made in this setting: awaited tools with and without arguments
\* and update_cc, which does not await
OrderCalls ==
    {<< "toggle_play", Undefined >>,
     << "set_bpm", Obj([bpm |-> Num(120)]) >>,
     << "update_cc", Obj([track |-> StrD("PU", << 1 >>), cc |-> StrD("cc", << 1 >>),
                          value |-> Num(80)]) >>}

\* a tool call is invoked: the handler runs up to its await or its return
\* (the histories failedCmd and firstSent are not followed here)
Invoke(name, args, throws) ==
    LET end == CallTool(name, args, throws)
        id  == calls.invoked + 1
        seg == Segments(name, end)
    IN  /\ turn = Idle
        /\ calls.invoked < MaxCalls
        /\ turn' = Ran("call", 0, name, args, isConnected /\ wsClient # 0, throws, end)
        /\ calls' = [invoked |-> id,
                     log |-> calls.log \o Stamped(id, seg.now),
                     waiting |-> calls.waiting \cup
                                 (IF seg.yields THEN {[id |-> id, later |-> seg.later]}
                                  ELSE {})]
        /\ UNCHANGED << proc, wsClient, isConnected, currentState, ws, timers, failedCmd,
                        vIn, vOut, firstSent >>

\* the handler of a waiting call resumes after its await and returns
Resume(c) ==
    /\ turn = Idle
    /\ c \in calls.waiting
    /\ calls' = [calls EXCEPT !.waiting = @ \ {c},
                              !.log = @ \o Stamped(c.id, c.later)]
    /\ UNCHANGED << proc, wsClient, isConnected, currentState, ws, timers, turn, failedCmd,
                    vIn, vOut, firstSent >>

NextO ==
    \/ \E c \in OrderCalls : Invoke(c[1], c[2], FALSE)
    \/ \E c \in calls.waiting : Resume(c)
    \/ \E h \in Handles : OnOpen(h, FALSE)
    \/ \E h \in Handles : NewHandle \in Handles /\ OnClose(h)
    \/ ReconnectTimer
    \/ TurnEnd

SpecO == Init /\ [][NextO]_vars

\* ------------------------------------------------------------------------
\* Properties
\* ------------------------------------------------------------------------
\* the turn that has just run called sendCommand
SendTurn == turn.op \in {"call", "read", "open"} /\ turn.resp.status # "none"

\* C1: sendCommand invoked while the bridge is not connected resolves to
\* status "error" with the message "Not connected to mGB MIDI sequencer" and
\* makes no write and no write attempt on the transport, for every command.
C1_NotConnectedRefused ==
    (SendTurn /\ ~turn.conn) =>
        /\ turn.resp = [status |-> "error", data |-> Undefined,
                        message |-> "Not connected to mGB MIDI sequencer"]
        /\ turn.wrote = <<>>
        /\ turn.attempts = 0

C1_Witness ==
    /\ turn.op = "call" /\ turn.name = "set_note" /\ ~turn.conn
    /\ turn.resp.status = "error"
    /\ wsClient # 0 /\ ~isConnected

\* C2: sendCommand invoked while connected (the write not throwing) makes
\* exactly one write, of the command it was given, on the current handle and
\* resolves in the same turn to {status: success, data: {command: name}},
\* in every state of the cache; toggle_step(row 0, col 3) returns its
\* success text with no snapshot ever received.
C2_ConnectedOptimisticSend ==
    /\ (SendTurn /\ turn.conn /\ ~turn.threw) =>
          /\ turn.wrote = << [h |-> wsClient, cmd |-> turn.command] >>
          /\ turn.attempts = 1
          /\ turn.resp = [status |-> "success",
                          data |-> Obj([command |-> Get(turn.command, "command")]),
                          message |-> ""]
    /\ (/\ turn.op = "call" /\ turn.name = "toggle_step"
        /\ turn.args = Obj([row |-> Num(0), col |-> Num(3)])
        /\ turn.conn /\ ~turn.threw) =>
          /\ turn.command = Obj([command |-> Str("toggle_step"), row |-> Num(0),
                                 col |-> Num(3)])
          /\ turn.resp.data = Obj([command |-> Str("toggle_step")])
          /\ turn.out.kind = "return"
          /\ turn.out.msg = "Step set to OFF"

C2_Witness ==
    /\ turn.op = "call" /\ turn.name = "toggle_step"
    /\ turn.conn /\ ~turn.threw
    /\ turn.resp.status = "success"
    /\ Len(turn.wrote) = 1
    /\ ~currentState.present

\* C3: when the transport write throws while connected, sendCommand resolves
\* in the same turn to status "error" with a message that carries the cause;
\* nothing is written and the caller sees no exception.
C3_WriteThrowsIsErrorResponse ==
    (SendTurn /\ turn.conn /\ turn.threw) =>
        /\ turn.resp = [status |-> "error", data |-> Undefined,
                        message |-> "Error sending command: send failed"]
        /\ turn.wrote = <<>>
        /\ turn.attempts = 1
        /\ turn.out.kind # "McpError"
        /\ (turn.op = "call" /\ turn.name \notin {"update_cc", "update_synth_param"}) =>
              turn.out.msg = "Error: Error sending command: send failed"

C3_Witness ==
    /\ turn.op = "call" /\ turn.name = "set_bpm" /\ turn.conn /\ turn.threw
    /\ turn.resp.status = "error"
    /\ turn.out.kind = "return"

\* C4: a command refused while the bridge is not connected is never written
\* later.  Every write is made either in an open turn, and is then the one
\* get_state of that turn, or in the turn of an operation invoked while
\* connected, and is then that operation's own command; an operation invoked
\* while not connected writes nothing and gets the error at once.
C4_NoQueueNoRetry ==
    /\ \A i \in DOMAIN turn.wrote :
          \/ turn.op = "open" /\ turn.wrote = << [h |-> wsClient, cmd |-> GetState] >>
          \/ /\ turn.op \in {"call", "read"} /\ turn.conn
             /\ turn.wrote = << [h |-> wsClient, cmd |-> turn.command] >>
    /\ (turn.op \in {"call", "read"} /\ SendTurn /\ ~turn.conn) =>
          turn.wrote = <<>> /\ turn.resp.status = "error"
    /\ turn.op \notin {"call", "read", "open"} => turn.wrote = <<>>

C4_Witness ==
    /\ failedCmd = Cmd([command |-> Str("toggle_play")])
    /\ turn.op = "open" /\ turn.h = 2
    /\ turn.wrote = << [h |-> 2, cmd |-> GetState] >>

\* C5: update_cc with valid arguments returns its acknowledgement
\* "CC update sent ..." whether the bridge is connected or not and whether
\* the write throws or not; it makes at most one write attempt.
C5_UpdateCcAlwaysAcknowledged ==
    (/\ turn.op = "call" /\ turn.name = "update_cc"
     /\ isUpdateCcArgs(turn.args) = "true") =>
        /\ turn.out = [kind |-> "return", code |-> "", msg |-> "CC update sent for",
                       vals |-> << Get(turn.args, "track"), Get(turn.args, "cc"),
                                   Get(turn.args, "value") >>,
                       doc |-> NoState]
        /\ turn.attempts <= 1
        /\ Len(turn.wrote) <= 1
        /\ ~turn.conn => turn.wrote = <<>> /\ turn.attempts = 0

C5_Witness ==
    /\ turn.op = "call" /\ turn.name = "update_cc"
    /\ isUpdateCcArgs(turn.args) = "true"
    /\ turn.conn /\ turn.threw
    /\ turn.out.msg = "CC update sent for"

\* the tools whose case applies a validator to the arguments
ValidatedTools ==
    {"set_bpm", "toggle_step", "set_note", "send_preset", "batch_update",
     "change_midi_output", "change_midi_input", "toggle_midi_clock", "update_cc"}

\* C6: a call of an operation that takes arguments, with arguments its
\* validator does not accept (absent arguments included), ends in the
\* InvalidParams argument error and writes nothing, in every connection state.
C6_InvalidArgsAreInvalidParams ==
    (/\ turn.op = "call" /\ turn.name \in ValidatedTools
     /\ ValidatorOf(turn.name, turn.args) # "true") =>
        /\ turn.out.kind = "McpError" /\ turn.out.code = "InvalidParams"
        /\ turn.wrote = <<>>
        /\ turn.attempts = 0

\* The schema table of the nine batch item variants:
\* cell / row / grid by state (boolean), note (0..127), divide (1, 2 or 3)
IsNumber(v) == v.t = "number"
Booleans == {Bool(TRUE), Bool(FALSE)}
Notes == {Num(n) : n \in 0..127}
Divisions == {Num(1), Num(2), Num(3)}
ListOf(v, S) == v.t = "array" /\ \A i \in 1..Len(v.a) : v.a[i] \in S
ListOfLists(v, S) == v.t = "array" /\ \A i \in 1..Len(v.a) : ListOf(v.a[i], S)

MatchesSchema(item) ==
    /\ item.t = "object"
    /\ Get(item, "type").t = "string"
    /\ Get(item, "type").d = <<>>
    /\ LET ty  == Get(item, "type").s
           row == IsNumber(Get(item, "row"))
           col == IsNumber(Get(item, "col"))
       IN  \/ ty = "sequence" /\ row /\ col /\ Get(item, "state") \in Booleans
           \/ ty = "note" /\ row /\ col /\ Get(item, "note") \in Notes
           \/ ty = "divide" /\ row /\ col /\ Get(item, "divide") \in Divisions
           \/ ty = "sequence_row" /\ row /\ ListOf(Get(item, "states"), Booleans)
           \/ ty = "note_row" /\ row /\ ListOf(Get(item, "notes"), Notes)
           \/ ty = "divide_row" /\ row /\ ListOf(Get(item, "divides"), Divisions)
           \/ ty = "sequence_all" /\ ListOfLists(Get(item, "states"), Booleans)
           \/ ty = "note_all" /\ ListOfLists(Get(item, "notes"), Notes)
           \/ ty = "divide_all" /\ ListOfLists(Get(item, "divides"), Divisions)

AllMatch(list) == \A i \in 1..Len(list) : MatchesSchema(list[i])

\* C7: batch_update is all-or-nothing.  If any item of the updates list
\* fails its variant's schema nothing is written; if every item matches, a
\* connected call whose write does not throw writes exactly one batch_update
\* command whose updates field is the caller's list, same items in the same
\* order; whatever is written carries the caller's full list.
C7_BatchAllOrNothing ==
    (turn.op = "call" /\ turn.name = "batch_update") =>
        LET ups == Get(turn.args, "updates")
        IN  /\ (ups.t # "array" \/ ~AllMatch(ups.a)) =>
                  turn.wrote = <<>> /\ turn.attempts = 0
            /\ (ups.t = "array" /\ AllMatch(ups.a) /\ turn.conn /\ ~turn.threw) =>
                  turn.wrote =
                    << [h |-> wsClient,
                        cmd |-> Obj([command |-> Str("batch_update"),
                                     updates |-> ups])] >>
            /\ \A i \in DOMAIN turn.wrote :
                  /\ Get(turn.wrote[i].cmd, "command") = Str("batch_update")
                  /\ Get(turn.wrote[i].cmd, "updates") = ups

C7_Witness ==
    /\ turn.op = "call" /\ turn.name = "batch_update"
    /\ Get(turn.args, "updates") = Arr(<< ItemNoteRow, ItemSeqCell >>)
    /\ Len(turn.wrote) = 1
    /\ Get(turn.wrote[1].cmd, "updates").a = << ItemNoteRow, ItemSeqCell >>

\* C8: isBatchUpdateArgs accepts an updates list (the empty list included)
\* exactly when every item is one of the nine variants and carries that
\* variant's fields with the table's types and ranges.
C8_BatchValidatorMatchesTable ==
    LET ups == Get(vIn, "updates")
    IN  (vOut # NotRun /\ vIn.t = "object" /\ ups.t = "array") =>
            (vOut.isBatchUpdateArgs = "true" <=> AllMatch(ups.a))

C8_Witness ==
    LET ups == Get(vIn, "updates")
    IN  /\ vOut # NotRun /\ vOut.isBatchUpdateArgs = "true"
        /\ ups.t = "array" /\ Len(ups.a) = 1
        /\ Get(ups.a[1], "type") = Str("divide_all")
        /\ Len(Get(ups.a[1], "divides").a) = MaxGridRows
        /\ Len(Get(ups.a[1], "divides").a[1].a) = MaxGridCols

\* C9: every validator is total: on every argument value, absent (undefined
\* or null) arguments and a null item in a batch list included, it returns a
\* boolean verdict and does not throw.
C9_ValidatorsTotal ==
    vOut # NotRun => \A f \in DOMAIN vOut : vOut[f] \in {"true", "false"}

LiveHandles == {h \in Handles : ws[h] \in Live}

\* C10: at most one transport handle is live (connecting or open), at most
\* one reconnect timer is pending, a pending timer never coexists with a
\* live handle, the live handle is the current one, and after connectToMgb
\* the only live handle is the one it created.
C10_OneHandleOneTimer ==
    /\ Cardinality(LiveHandles) <= 1
    /\ timers <= 1
    /\ ~(timers >= 1 /\ LiveHandles # {})
    /\ LiveHandles \subseteq {wsClient}
    /\ turn.op = "connect" => LiveHandles = {turn.h} /\ wsClient = turn.h

C10_Witness ==
    /\ turn.op = "connect" /\ turn.h = 2
    /\ ws[1] = "closed" /\ ws[2] = "connecting"
    /\ timers = 0

\* C11: every transport close, whatever its cause, marks the bridge
\* Disconnected and schedules one reconnect, and a connectToMgb attempt
\* eventually follows it; the bridge is never in a state from which no
\* further attempt can happen: the current handle is still to close, or a
\* reconnect timer is pending.
C11_CloseLeadsToConnect ==
    /\ [](turn.op = "close" => ~isConnected /\ timers = 1)
    /\ [](ws[wsClient] = "closed" => timers = 1)
    /\ [](ws[wsClient] \in {"connecting", "open", "errored", "closed"})
    /\ \A h \in Handles :
         (turn.op = "close" /\ turn.h = h) ~> (turn.op = "connect" /\ turn.h = h + 1)

C11_Witness ==
    /\ turn.op = "close" /\ turn.h = 2
    /\ ws[1] = "closed" /\ ws[2] = "closed"
    /\ ~isConnected /\ timers = 1

\* C12: the delay with which the close handler schedules the next
\* connectToMgb is an integer number of milliseconds d with 5000 <= d < 8000,
\* for every value of [0, 1) the random source returns.
C12_DelayInRange ==
    (vIn.t = "number" /\ vOut # NotRun) =>
        /\ vOut.t = "number"
        /\ vOut.n \in Int
        /\ 5000 <= vOut.n /\ vOut.n < 8000

C12_Witness ==
    /\ vIn = Num(RandRes - 1)
    /\ vOut = Num(7999)

Cc1(value) ==
    [track |-> [s |-> "PU", d |-> << 1 >>], key |-> [s |-> "cc", d |-> << 1 >>],
     value |-> Num(value)]

\* C14: the cached state changes only in a turn of the message handler on a
\* state or a cc_update message: no tool call (update_cc included, which
\* does not write the value it sends into the cache), no resource read, no
\* response message and no open, error, close or timer event changes it.
C14_CacheWrittenByPushesOnly ==
    [][currentState' # currentState =>
         turn'.op = "message" /\ turn'.name \in {"state", "cc_update"}]_vars

C14_Witness ==
    /\ turn.op = "call" /\ turn.name = "update_cc"
    /\ turn.args = Obj([track |-> StrD("PU", << 1 >>), cc |-> StrD("cc", << 1 >>),
                        value |-> Num(80)])
    /\ Len(turn.wrote) = 1
    /\ currentState.present
    /\ Cc1(64) \in currentState.cc /\ Cc1(80) \notin currentState.cc

\* C15: a cc_update processed while no state is cached is ignored: the cache
\* stays absent, and the snapshot that arrives later is cached as it is, so
\* the ignored value shows in the cache only if the snapshot carries it.
C15_CcUpdateWithoutCacheIgnored ==
    [][(turn'.op = "message" /\ ~currentState.present) =>
         /\ turn'.name = "cc_update" => currentState' = currentState
         /\ turn'.name = "state" =>
              /\ currentState' \in Snapshots
              /\ \A e \in currentState'.cc : e \in Snap1.cc]_vars

C15_Witness ==
    /\ turn.op = "message" /\ turn.name = "cc_update"
    /\ Get(turn.args, "value") = Num(10)
    /\ ~currentState.present

\* the key the claim gives a pushed cc: "cc<N>" for a number N, the string
\* itself for a string
ClaimedKey(cc) ==
    IF cc.t = "number" THEN [s |-> "cc", d |-> Digits(cc.n)] ELSE [s |-> cc.s, d |-> cc.d]

\* C16: whenever a state is cached, processing cc_update(track, cc, value)
\* leaves the cache with ccValues[track][ccKey] = value, ccValues[track]
\* created if absent, and no other entry and no other field changed; this
\* holds for every cached snapshot, one without a cc_values mapping included.
C16_CcUpdateApplied ==
    [][(turn'.op = "message" /\ turn'.name = "cc_update" /\ currentState.present) =>
         LET tk == [s |-> Get(turn'.args, "track").s, d |-> Get(turn'.args, "track").d]
             ck == ClaimedKey(Get(turn'.args, "cc"))
             entry == [track |-> tk, key |-> ck, value |-> Get(turn'.args, "value")]
         IN  /\ entry \in currentState'.cc
             /\ tk \in currentState'.tracks
             /\ \A e \in currentState'.cc : e.track = tk /\ e.key = ck => e = entry
             /\ \A e \in currentState.cc :
                  ~(e.track = tk /\ e.key = ck) => e \in currentState'.cc
             /\ \A e \in currentState'.cc : e = entry \/ e \in currentState.cc
             /\ currentState'.tracks = currentState.tracks \cup {tk}
             /\ [currentState' EXCEPT !.cc = {}, !.tracks = {}, !.hasCc = TRUE]
                  = [currentState EXCEPT !.cc = {}, !.tracks = {}, !.hasCc = TRUE]]_vars

\* C16 for the snapshots that carry a cc_values mapping
C16_CcUpdateAppliedWithMapping ==
    [][(/\ turn'.op = "message" /\ turn'.name = "cc_update"
        /\ currentState.present /\ currentState.hasCc) =>
         LET tk == [s |-> Get(turn'.args, "track").s, d |-> Get(turn'.args, "track").d]
             ck == ClaimedKey(Get(turn'.args, "cc"))
             entry == [track |-> tk, key |-> ck, value |-> Get(turn'.args, "value")]
         IN  /\ entry \in currentState'.cc
             /\ currentState'.cc =
                  {e \in currentState.cc : ~(e.track = tk /\ e.key = ck)} \cup {entry}
             /\ currentState'.tracks = currentState.tracks \cup {tk}
             /\ [currentState' EXCEPT !.cc = {}, !.tracks = {}]
                  = [currentState EXCEPT !.cc = {}, !.tracks = {}]]_vars

\* the string "cc<N>" for an integer N
CcString(n) == IF n >= 0 THEN StrD("cc", Digits(n)) ELSE StrD("cc-", Digits(-n))

\* the cache after the message handler has processed the cc_update pushes
\* of ms, in order, starting from state
RECURSIVE After(_, _)
After(state, ms) ==
    IF ms = <<>> THEN state ELSE After(HandleMessage(state, Head(ms)), Tail(ms))

\* C17: from every cache state, for every track, number N and value v, the
\* push with cc = N followed by the push with cc = "cc<N>" (same track and
\* value), in either order, leaves the same cache as either push alone, and
\* a push processed twice leaves the same cache as processed once.
C17_CcUpdateIdempotent ==
    \A tr \in CcTracks \cup {Str("WAV")} : \A n \in {-1, 0, 5, 12, 127} :
      \A v \in CcValues \cup {Num(64)} :
        LET byNum == CcUpdateMsg(tr, Num(n), v)
            byStr == CcUpdateMsg(tr, CcString(n), v)
            one   == After(currentState, << byNum >>)
        IN  /\ After(currentState, << byStr >>) = one
            /\ After(currentState, << byNum, byStr >>) = one
            /\ After(currentState, << byStr, byNum >>) = one
            /\ After(currentState, << byNum, byNum >>) = one
            /\ After(currentState, << byStr, byStr >>) = one

C17_Witness ==
    /\ turn.op = "message" /\ turn.name = "cc_update"
    /\ Get(turn.args, "cc") = StrD("cc", << 5 >>)
    /\ Get(turn.args, "track") = StrD("PU", << 1 >>)
    /\ currentState.present
    /\ {e \in currentState.cc : e.track = [s |-> "PU", d |-> << 1 >>]}
         = {Cc1(64),
            [track |-> [s |-> "PU", d |-> << 1 >>],
             key |-> [s |-> "cc", d |-> << 5 >>], value |-> Num(10)]}
    /\ After(currentState, << CcUpdateMsg(StrD("PU", << 1 >>), Num(5), Num(10)) >>)
         = currentState

\* C18: in every cache state every key under ccValues[track] has the form
\* "cc" followed by digits, whether a push carried cc as a number or as a
\* string, and track is one of PU1, PU2, WAV, NOISE, POLY.
C18_CcKeysNormalized ==
    \A e \in currentState.cc :
        /\ e.key.s = "cc" /\ Len(e.key.d) >= 1
        /\ e.track \in {[s |-> "PU", d |-> << 1 >>], [s |-> "PU", d |-> << 2 >>],
                        [s |-> "WAV", d |-> <<>>], [s |-> "NOISE", d |-> <<>>],
                        [s |-> "POLY", d |-> <<>>]}

\* C19: a read of mgb://state while no snapshot has been received returns the
\* fixed default document with a non-empty _error and does not fail, whether
\* the bridge is Disconnected, Connected, or Connected with a throwing write.
C19_ReadWithoutSnapshot ==
    (turn.op = "read" /\ turn.name = "mgb://state" /\ ~currentState.present) =>
        /\ turn.out.kind = "return"
        /\ turn.out.doc =
             [present |-> TRUE, is_playing |-> FALSE, bpm |-> 120, current_step |-> 0,
              sequence |-> <<>>, note_values |-> <<>>, midi_output |-> "",
              midi_input |-> "", midi_clock_enabled |-> FALSE,
              hasCc |-> TRUE, tracks |-> {}, cc |-> {}]
        /\ turn.out.msg # ""

C19_Witness ==
    /\ turn.op = "read" /\ turn.name = "mgb://state"
    /\ ~currentState.present
    /\ turn.conn /\ turn.threw
    /\ turn.out.kind = "return"
    /\ turn.out.msg = "Error sending command: send failed"

\* C20: a read of mgb://state while a state is cached returns the cached
\* state (the last snapshot with the later cc_update pushes applied) with no
\* _error and writes nothing to the transport, Connected or Disconnected.
C20_ReadReturnsCache ==
    (turn.op = "read" /\ turn.name = "mgb://state" /\ currentState.present) =>
        /\ turn.out.kind = "return"
        /\ turn.out.doc = currentState
        /\ turn.out.msg = ""
        /\ turn.wrote = <<>>
        /\ turn.attempts = 0

C20_Witness ==
    /\ turn.op = "read" /\ turn.name = "mgb://state"
    /\ ~turn.conn /\ ~isConnected
    /\ currentState.present
    /\ Cc1(80) \in turn.out.doc.cc /\ Cc1(64) \notin turn.out.doc.cc
    /\ turn.out.doc.bpm = 140

\* C21: an inbound payload that cannot be decoded (no JSON, or no object) or
\* whose type is none of state, response, cc_update is dropped: the cache,
\* the connectivity flag, the handle and the timers are unchanged, no
\* exception leaves the message handler, and the handle stays open for the
\* messages that follow.
C21_UnknownPayloadDropped ==
    [][(turn'.op = "message" /\ turn'.name \notin {"state", "response", "cc_update"}) =>
         /\ currentState' = currentState
         /\ isConnected' = isConnected
         /\ wsClient' = wsClient
         /\ ws' = ws
         /\ timers' = timers
         /\ turn'.out.kind \in {"none", "logged"}
         /\ ws'[turn'.h] = "open"]_vars

C21_Witness ==
    /\ turn.op = "message" /\ turn.name = "null"
    /\ turn.out.kind = "logged"
    /\ currentState.present /\ isConnected /\ ws[wsClient] = "open"

\* the turn that has just run processed an error response of the device
DeviceErrorTurn ==
    /\ turn.op = "message" /\ turn.name = "response"
    /\ Get(turn.args, "status") = Str("error")

\* C22 as stated: an error response of the device is surfaced to a caller:
\* the turn that processes it ends in an operation outcome that carries the
\* device's error.
C22_DeviceErrorSurfaced ==
    DeviceErrorTurn =>
        /\ turn.out.kind \in {"return", "McpError"}
        /\ turn.out.msg = "Error: " \o Get(turn.args, "message").s

\* C22 amended: an error response of the device is logged and reaches no
\* caller: the turn that processes it ends with the log line only, and
\* the error a tool call or a resource read reports is always the bridge's
\* own (not connected, or the write threw), never the device's.
C22_DeviceErrorOnlyLogged ==
    /\ DeviceErrorTurn =>
          /\ turn.out = Logged("[MGB API Error] " \o Get(turn.args, "message").s)
          /\ turn.resp.status = "none"
          /\ turn.wrote = <<>>
    /\ (turn.op \in {"call", "read"} /\ turn.resp.status = "error") =>
          /\ turn.resp.message \in {"Not connected to mGB MIDI sequencer",
                                    "Error sending command: send failed"}
          /\ (~turn.conn \/ turn.threw)
    /\ turn.op \in {"call", "read"} =>
          turn.out.msg \notin {DeviceErrorText, "Error: " \o DeviceErrorText}

C22_Witness ==
    /\ DeviceErrorTurn
    /\ turn.out.kind = "logged"
    /\ isConnected /\ currentState.present

\* the tool names the switch has a case for
KnownTools == ValidatedTools \cup {"toggle_play", "get_midi_ports", "update_synth_param"}

\* the calls in which something other than the handler's own McpError is
\* raised: a validator, or args.track of update_synth_param, reads a property
\* of absent arguments
RaisesInside(name, args) ==
    \/ name \in ValidatedTools /\ ValidatorOf(name, args) = "throw"
    \/ name = "update_synth_param" /\ Nullish(args)

\* C23: a tool call ends either in a returned text or in an McpError whose
\* code is InvalidParams, MethodNotFound or InternalError, never in a raw
\* exception; an exception raised inside the handler reaches the caller as
\* InternalError; an unknown tool name ends in MethodNotFound with no write
\* and no write attempt, and only an unknown name does.
C23_NoRawExceptionEscapes ==
    turn.op = "call" =>
        /\ turn.out.kind \in {"return", "McpError"}
        /\ turn.out.kind = "McpError" =>
              turn.out.code \in {"InvalidParams", "MethodNotFound", "InternalError"}
        /\ RaisesInside(turn.name, turn.args) =>
              /\ turn.out.kind = "McpError" /\ turn.out.code = "InternalError"
              /\ turn.wrote = <<>>
        /\ (turn.out.kind = "McpError" /\ turn.out.code = "InternalError") =>
              RaisesInside(turn.name, turn.args)
        /\ turn.name \notin KnownTools <=>
              (turn.out.kind = "McpError" /\ turn.out.code = "MethodNotFound")
        /\ turn.name \notin KnownTools => turn.wrote = <<>> /\ turn.attempts = 0

C23_Witness ==
    /\ turn.op = "call" /\ turn.name = "update_synth_param"
    /\ turn.args = Undefined /\ turn.conn
    /\ turn.out.kind = "McpError" /\ turn.out.code = "InternalError"
    /\ turn.wrote = <<>>

\* C24: on an arguments object, isSetBpmArgs accepts exactly when bpm is a
\* number with 60 <= bpm <= 300: 60 and 300 are accepted, 59 and 301
\* rejected, and a bpm that is missing or no number is rejected.
C24_SetBpmRange ==
    LET bpm == Get(vIn, "bpm")
    IN  (vOut # NotRun /\ vIn.t = "object") =>
            /\ vOut.isSetBpmArgs = "true" <=>
                  (IsNumber(bpm) /\ 60 <= bpm.n /\ bpm.n <= 300)
            /\ bpm \in {Num(60), Num(300)} => vOut.isSetBpmArgs = "true"
            /\ bpm \in {Num(59), Num(301)} => vOut.isSetBpmArgs = "false"
            /\ ~IsNumber(bpm) => vOut.isSetBpmArgs = "false"

C24_Witness ==
    /\ vOut # NotRun /\ Get(vIn, "bpm") = Num(300)
    /\ vOut.isSetBpmArgs = "true"

\* the five track names, and the two forms of a cc code
TrackNames ==
    {StrD("PU", << 1 >>), StrD("PU", << 2 >>), Str("WAV"), Str("NOISE"), Str("POLY")}
CcText(cc) == cc.t = "string" /\ cc.s = "cc" /\ cc.d # <<>>
CcNumber(cc) == IsNumber(cc) /\ 0 <= cc.n /\ cc.n <= 127

\* C25: on an arguments object, isUpdateCcArgs accepts exactly when track is
\* one of the five track names, value is a number in 0..127, and cc is
\* either the text "cc" followed by one or more digits or a number in
\* 0..127; "cc200" is accepted and the number 128 is not.
C25_UpdateCcValidator ==
    LET track == Get(vIn, "track")
        cc    == Get(vIn, "cc")
        value == Get(vIn, "value")
    IN  (vOut # NotRun /\ vIn.t = "object") =>
            /\ vOut.isUpdateCcArgs = "true" <=>
                  /\ track \in TrackNames
                  /\ CcText(cc) \/ CcNumber(cc)
                  /\ IsNumber(value) /\ 0 <= value.n /\ value.n <= 127
            /\ vOut.isUpdateCcArgs \in {"true", "false"}
            /\ (track \in TrackNames /\ value = Num(0)) =>
                  /\ cc = StrD("cc", << 2, 0, 0 >>) => vOut.isUpdateCcArgs = "true"
                  /\ cc = Num(128) => vOut.isUpdateCcArgs = "false"

C25_Witness ==
    /\ vOut # NotRun /\ vOut.isUpdateCcArgs = "true"
    /\ Get(vIn, "track") = Str("NOISE")
    /\ Get(vIn, "cc") = StrD("cc", << 2, 0, 0 >>)
    /\ Get(vIn, "value") = Num(127)

\* the connection state: Connected while isConnected is set, Connecting
\* while the current handle has not opened yet, Disconnected otherwise
ConnState ==
    IF isConnected THEN "Connected"
    ELSE IF wsClient # 0 /\ ws[wsClient] = "connecting" THEN "Connecting"
    ELSE "Disconnected"

Cycle ==
    {<< "Disconnected", "Connecting" >>, << "Connecting", "Connected" >>,
     << "Connected", "Disconnected" >>}

\* something is still to happen on the connection: a handle is connecting
\* or open, a handle's close event is due, or a reconnect timer is pending
Pending ==
    \/ timers > 0
    \/ \E h \in Handles : ws[h] \in {"connecting", "open", "errored", "terminated"}

\* C26 as stated: the connection state changes only along the cycle
\* Disconnected -> Connecting -> Connected -> Disconnected.
C26_OnlyAlongCycle ==
    [][ConnState' # ConnState => << ConnState, ConnState' >> \in Cycle]_vars

\* the changes of the connection state a step may make
ConnStep ==
    /\ ConnState' # ConnState =>
          << ConnState, ConnState' >> \in
              Cycle \cup {<< "Connecting", "Disconnected" >>}
    /\ (ConnState # "Connected" /\ ConnState' = "Connected") =>
          /\ ConnState = "Connecting"
          /\ turn'.op = "open" /\ turn'.h = wsClient /\ wsClient' = wsClient
          /\ wsClient = Cardinality({h \in Handles : ws[h] # "none"})
    /\ (ConnState = "Connected" /\ ConnState' # "Connected") =>
          turn'.op \in {"error", "close"} /\ turn'.h = wsClient
    /\ (ConnState = "Connecting" /\ ConnState' = "Disconnected") =>
          turn'.op \in {"error", "close"} /\ turn'.h = wsClient
    /\ (ConnState = "Disconnected" /\ ConnState' # "Disconnected") =>
          turn'.op = "connect" /\ wsClient' = turn'.h

\* C26 amended: the bridge starts not connected; the connection state
\* changes only along the cycle or from Connecting back to Disconnected when
\* an error or close event ends the attempt; it becomes Connected only in
\* the open turn of the current handle, which is the one the latest
\* connectToMgb created, leaves Connected only in an error or close turn,
\* leaves Disconnected only in a connectToMgb turn, and in every state
\* something is still to happen on the connection.
C26_ConnectionCycle ==
    /\ ~isConnected
    /\ [](isConnected => ws[wsClient] = "open")
    /\ []Pending
    /\ [][ConnStep]_vars

C26_Witness ==
    /\ turn.op = "close" /\ turn.h = 2 /\ turn.conn
    /\ wsClient = 2 /\ ConnState = "Disconnected" /\ timers = 1

\* what an error turn does, and where a reconnect timer and a new
\* connection come from
ErrorStep ==
    /\ (turn.op # "error" /\ turn'.op = "error") =>
          /\ ~isConnected'
          /\ timers' = timers
          /\ wsClient' = wsClient
          /\ currentState' = currentState
          /\ \A h \in Handles : ws'[h] # ws[h] => h = turn'.h /\ ws'[h] = "errored"
    /\ timers' > timers => turn'.op = "close"
    /\ \A h \in Handles :
          ws[h] = "errored" /\ ws'[h] # ws[h] => ws'[h] = "closed" /\ turn'.op = "close"
    /\ wsClient' # wsClient => turn'.op = "connect" /\ timers' = timers - 1

\* C27: an error turn clears isConnected and changes nothing else: no timer
\* is added, wsClient stays, no other handle changes; a timer is added only
\* by a close turn and the current handle is replaced only when a timer
\* fires; while the current handle is not open (after an error, until the
\* next handle has opened) the bridge is not connected and every send is
\* refused with "Not connected to mGB MIDI sequencer" without a write.
C27_ErrorOnlyMarksDisconnected ==
    /\ [][ErrorStep]_vars
    /\ [](ws[wsClient] # "open" =>
            /\ ~isConnected
            /\ (turn.op \in {"call", "read"} /\ SendTurn) =>
                  /\ turn.resp.status = "error"
                  /\ turn.resp.message = NotConnectedMsg
                  /\ turn.wrote = <<>> /\ turn.attempts = 0)

C27_Witness ==
    /\ ws[wsClient] = "errored" /\ firstSent = "get_state" /\ timers = 0
    /\ turn.op = "call" /\ turn.name = "update_cc" /\ SendTurn
    /\ turn.resp.message = NotConnectedMsg

\* the cc_update pushes of the message handler's inputs, and their sequences
\* of up to two
Pushes == {m \in CacheMessages : m.type = "cc_update"}
PushSeqs == {<<>>} \cup {<< m >> : m \in Pushes} \cup (Pushes \X Pushes)

\* a cc_update push applied to a cached snapshot as the cache rule states it:
\* ccValues[track][ccKey] = value, the mappings created if absent
Applied(state, m) ==
    LET tk == [s |-> m.track.s, d |-> m.track.d]
        ck == ClaimedKey(m.cc)
    IN  [state EXCEPT
           !.hasCc = TRUE,
           !.tracks = @ \cup {tk},
           !.cc = {e \in @ : ~(e.track = tk /\ e.key = ck)}
                  \cup {[track |-> tk, key |-> ck, value |-> m.value]}]

RECURSIVE AppliedAll(_, _)
AppliedAll(state, ms) ==
    IF ms = <<>> THEN state ELSE AppliedAll(Applied(state, Head(ms)), Tail(ms))

\* C28: from every cache state, after a state message the cache is that
\* message's snapshot, whatever was cached before, and after the cc_update
\* pushes that follow it the cache is that snapshot with those pushes
\* applied in order.
C28_SnapshotThenPushes ==
    \A snap \in Snapshots : \A ps \in PushSeqs :
        After(currentState, << StateMsg(snap) >> \o ps) = AppliedAll(snap, ps)

\* C28 for the snapshots that carry a cc_values mapping
C28_SnapshotThenPushesWithMapping ==
    \A snap \in Snapshots : \A ps \in PushSeqs :
        snap.hasCc =>
            After(currentState, << StateMsg(snap) >> \o ps) = AppliedAll(snap, ps)

\* the update_cc commands written in the turn
WrittenUpdateCc ==
    {turn.wrote[i].cmd : i \in {j \in DOMAIN turn.wrote :
                                   Get(turn.wrote[j].cmd, "command") = Str("update_cc")}}

\* C29: every update_cc command written to the transport, under whichever
\* tool name the call arrived (update_cc or update_synth_param), passes the
\* update_cc validator: track one of the five names, cc a valid cc string
\* or a number in 0..127, value a number in 0..127.
C29_WrittenUpdateCcValidated ==
    \A cmd \in WrittenUpdateCc :
        /\ isUpdateCcArgs(cmd) = "true"
        /\ Get(cmd, "track") \in TrackNames
        /\ CcText(Get(cmd, "cc")) \/ CcNumber(Get(cmd, "cc"))
        /\ CcNumber(Get(cmd, "value"))

\* C29 for the calls that arrive under the name update_cc
C29_UpdateCcToolValidated ==
    turn.name = "update_cc" =>
        \A cmd \in WrittenUpdateCc :
            /\ isUpdateCcArgs(cmd) = "true"
            /\ cmd = CommandOf("update_cc", turn.args)

\* C30: the writes of tool calls appear on the transport in the order the
\* calls were invoked: of two writes, on the same handle or not, the one
\* written first belongs to the call invoked first, and no call writes
\* twice; this includes update_cc and update_synth_param, which do not
\* await their send, among the awaited calls around them.
C30_WritesInInvocationOrder ==
    LET log == calls.log
    IN  /\ \A i \in DOMAIN log : \A j \in DOMAIN log :
              i < j => log[i].id < log[j].id /\ log[i].h <= log[j].h
        /\ \A i \in DOMAIN log : log[i].id \in 1..calls.invoked

C30_Witness ==
    /\ Len(calls.log) = 3
    /\ calls.log[1].command = Str("set_bpm")
    /\ calls.log[2].command = Str("update_cc")
    /\ calls.log[3].command = Str("toggle_play")
    /\ calls.log[1].h = calls.log[3].h
    /\ {c.id : c \in calls.waiting} = {1, 3}

\* C31: once the shutdown signal has been handled no transport handle is
\* created: connectToMgb does not run, whatever the order of the close
\* handler, the reconnect timer and the completion of the server's close.
C31_NoConnectAfterShutdown ==
    [][proc # "running" =>
         /\ wsClient' = wsClient
         /\ \A h \in Handles : ws[h] = "none" => ws'[h] = "none"]_vars

\* a change of isConnected is made by an open, error or close event of the
\* current handle
FlagStep ==
    isConnected' # isConnected =>
        /\ turn'.op \in {"open", "error", "close"}
        /\ turn'.h = wsClient
        /\ wsClient' = wsClient

\* C32: while isConnected is true there is a current handle, it has emitted
\* open (the get_state of its open handler was sent on it) and neither
\* error nor close since; a handle that is no longer the current one has
\* emitted its close and emits nothing more, and every change of
\* isConnected is made by an event of the current handle.
C32_FlagFollowsCurrentHandle ==
    /\ [](isConnected =>
            /\ wsClient \in Handles
            /\ firstSent # "none"
            /\ ws[wsClient] \notin {"none", "connecting", "errored", "closed"})
    /\ [](\A h \in Handles : h # wsClient => ws[h] \in {"none", "closed"})
    /\ [][FlagStep]_vars

C32_Witness ==
    /\ isConnected /\ wsClient = 2 /\ ws[1] = "closed" /\ ws[2] = "open"
    /\ turn.op = "message"

\* the text a tool reports when its send succeeded, the response carrying
\* only the command name: every field read from response.data is undefined
SuccessText(name, args) ==
    CASE name = "toggle_play" -> Return("Playback stopped", <<>>)
      [] name = "set_bpm" -> Return("BPM set to", << Undefined >>)
      [] name = "toggle_step" -> Return("Step set to OFF", << Undefined, Undefined >>)
      [] name = "set_note" -> Return("Note set", << Undefined, Undefined, Undefined >>)
      [] name = "send_preset" -> Return("Preset applied successfully", << Undefined >>)
      [] name = "batch_update" -> Return("Batch update completed successfully", <<>>)
      [] name = "get_midi_ports" ->
           Return("JSON", << Obj([command |-> Str("get_available_ports")]) >>)
      [] name = "change_midi_output" -> Return("MIDI output changed to", << Undefined >>)
      [] name = "change_midi_input" -> Return("MIDI input changed to", << Undefined >>)
      [] name = "toggle_midi_clock" -> Return("MIDI clock disabled", <<>>)
      [] OTHER -> NoOut

\* the result of a tool call as a function of the tool name, the
\* arguments, the connectivity flag at the call and whether the write throws
ResultOf(name, args, conn, threw) ==
    IF name \notin KnownTools THEN McpError("MethodNotFound", "Unknown tool")
    ELSE IF RaisesInside(name, args)
    THEN McpError("InternalError", "Error calling mGB API: TypeError")
    ELSE IF ValidatorOf(name, args) = "false"
    THEN McpError("InvalidParams",
                  CASE name = "set_bpm" -> "Invalid BPM arguments"
                    [] name = "toggle_step" -> "Invalid toggle step arguments"
                    [] name = "set_note" -> "Invalid set note arguments"
                    [] name = "send_preset" -> "Invalid preset arguments"
                    [] name = "batch_update" -> "Invalid batch update arguments"
                    [] name = "change_midi_output" -> "Invalid MIDI output arguments"
                    [] name = "change_midi_input" -> "Invalid MIDI input arguments"
                    [] name = "toggle_midi_clock" -> "Invalid MIDI clock arguments"
                    [] OTHER -> "Invalid control change arguments")
    ELSE IF name = "update_cc"
    THEN Return("CC update sent for",
                << Get(args, "track"), Get(args, "cc"), Get(args, "value") >>)
    ELSE IF name = "update_synth_param"
    THEN Return("Synth parameter update sent for",
                << Get(args, "track"), Get(args, "param"), Get(args, "value") >>)
    ELSE IF ~conn THEN Return("Error: Not connected to mGB MIDI sequencer", <<>>)
    ELSE IF threw THEN Return("Error: Error sending command: send failed", <<>>)
    ELSE SuccessText(name, args)

\* C33: the result of a tool call is a function of the tool name, the
\* arguments, the connectivity flag at the call and whether the write
\* throws, the same whatever is cached and whatever messages have arrived;
\* a successful toggle_play reports "Playback stopped" and a successful
\* set_bpm reports no tempo.
C33_ResultIgnoresCache ==
    turn.op = "call" =>
        /\ turn.out = ResultOf(turn.name, turn.args, turn.conn, turn.threw)
        /\ (turn.name = "toggle_play" /\ turn.resp.status = "success") =>
              turn.out.msg = "Playback stopped"
        /\ (turn.name = "set_bpm" /\ turn.resp.status = "success") =>
              turn.out.vals = << Undefined >> /\ turn.resp.data = Obj([command |-> Str("set_bpm")])

C33_Witness ==
    /\ turn.op = "call" /\ turn.name = "toggle_play"
    /\ turn.conn /\ ~turn.threw /\ turn.resp.status = "success"
    /\ currentState.present /\ currentState.is_playing
    /\ turn.out.msg = "Playback stopped"

\* the turn that has just run is a read of the state resource
StateRead == turn.op = "read" /\ turn.name = StateUri

\* C34 as stated: a read of the state resource writes to the transport
\* exactly when no state is cached and the bridge is connected.
C34_ReadWritesIffUncachedConnected ==
    StateRead => (turn.wrote # <<>> <=> (~currentState.present /\ turn.conn))

\* what a step into a read leaves alone
ReadStep ==
    (turn.op # "read" /\ turn'.op = "read") =>
        /\ currentState' = currentState
        /\ isConnected' = isConnected
        /\ wsClient' = wsClient

\* C34 amended: a read of the state resource calls the transport's send
\* exactly when no state is cached and the bridge is connected, and then
\* once, with get_state: the command is written unless the send throws;
\* the read returns the default document with an _error in the same call
\* ("mGB state is not available" when the command was written), and it
\* changes neither the cache nor the connectivity flag.
C34_ReadSendsIffUncachedConnected ==
    /\ [](StateRead =>
            /\ turn.attempts = (IF ~currentState.present /\ turn.conn THEN 1 ELSE 0)
            /\ turn.wrote = (IF ~currentState.present /\ turn.conn /\ ~turn.threw
                             THEN << [h |-> wsClient, cmd |-> GetState] >> ELSE <<>>)
            /\ turn.attempts = 1 =>
                  /\ turn.command = GetState
                  /\ turn.out.kind = "return"
                  /\ turn.out.doc = DefaultDoc
                  /\ turn.out.msg = (IF turn.threw THEN SendErrorMsg
                                     ELSE "mGB state is not available"))
    /\ [][ReadStep]_vars

C34_Witness ==
    /\ StateRead /\ ~currentState.present /\ turn.conn /\ ~turn.threw
    /\ turn.wrote = << [h |-> wsClient, cmd |-> GetState] >>
    /\ turn.out.msg = "mGB state is not available"

====
